---- MODULE Spec2Model ----
(***************************************************************************)
(* A model of the parlang/flatjs translator (src/unnamed/part_000): the    *)
(* passes of main() over in-memory input files, from collectDefinitions to *)
(* the writing of the output files.                                        *)
(*                                                                         *)
(* Lines of text are modelled by the regular expression that classifies    *)
(* them (start_re, end_re, method_re, ...), carrying the groups the        *)
(* expression captures.  Type names are strings; Chars gives the sequence  *)
(* of characters of a name, which computeClassId hashes.                   *)
(***************************************************************************)
EXTENDS Integers, Sequences, FiniteSets, TLC

(***************************************************************************)
(* 32-bit integer arithmetic of the source language: the operators & | ^ ~ *)
(* << and >>> on signed 32-bit integers (two's complement).                *)
(***************************************************************************)
TwoTo ==
  LET RECURSIVE P(_)
      P(k) == IF k = 0 THEN 1 ELSE 2 * P(k - 1)
  IN [k \in 0..30 |-> P(k)]

MinInt32 == (-TwoTo[30]) * 2

\* the operators on nonnegative operands, bit by bit
RECURSIVE AndU(_, _)
AndU(a, b) ==
  IF a = 0 \/ b = 0 THEN 0
  ELSE ((a % 2) * (b % 2)) + 2 * AndU(a \div 2, b \div 2)

RECURSIVE XorU(_, _)
XorU(a, b) ==
  IF a = 0 THEN b
  ELSE IF b = 0 THEN a
  ELSE ((a + b) % 2) + 2 * XorU(a \div 2, b \div 2)

RECURSIVE OrU(_, _)
OrU(a, b) ==
  IF a = 0 THEN b
  ELSE IF b = 0 THEN a
  ELSE (IF (a % 2) + (b % 2) > 0 THEN 1 ELSE 0) + 2 * OrU(a \div 2, b \div 2)

\* ~a
BitNot(a) == (-a) - 1

\* a & b; a negative operand is the complement of a nonnegative one
BitAnd(a, b) ==
  IF a >= 0 /\ b >= 0 THEN AndU(a, b)
  ELSE IF a >= 0 THEN a - AndU(a, BitNot(b))
  ELSE IF b >= 0 THEN b - AndU(b, BitNot(a))
  ELSE BitNot(OrU(BitNot(a), BitNot(b)))

\* a | b
BitOr(a, b) ==
  IF a >= 0 /\ b >= 0 THEN OrU(a, b)
  ELSE BitNot(BitAnd(BitNot(a), BitNot(b)))

\* a ^ b
BitXor(a, b) ==
  IF a >= 0 /\ b >= 0 THEN XorU(a, b)
  ELSE IF a >= 0 THEN BitNot(XorU(a, BitNot(b)))
  ELSE IF b >= 0 THEN BitNot(XorU(BitNot(a), b))
  ELSE XorU(BitNot(a), BitNot(b))

\* a << 1, wrapping to 32 bits
Shl1(a) ==
  IF a >= TwoTo[30] THEN ((a - TwoTo[30]) * 2) + MinInt32
  ELSE IF a < -TwoTo[30] THEN (((a + TwoTo[30]) * 2) + TwoTo[30]) + TwoTo[30]
  ELSE a * 2

\* a << k
RECURSIVE Shl(_, _)
Shl(a, k) == IF k = 0 THEN a ELSE Shl(Shl1(a), k - 1)

\* a >>> k for k in 1..30: the result is unsigned
Ushr(a, k) ==
  IF a >= 0 THEN a \div TwoTo[k]
  ELSE ((a - MinInt32) \div TwoTo[k]) + TwoTo[31 - k]

Max(a, b) == IF a >= b THEN a ELSE b

(***************************************************************************)
(* Primitive types (builtinTypes, atomicTypes).                            *)
(***************************************************************************)
builtinTypes ==
  [int8 |-> [size |-> 1, atomic |-> TRUE],
   uint8 |-> [size |-> 1, atomic |-> TRUE],
   int16 |-> [size |-> 2, atomic |-> TRUE],
   uint16 |-> [size |-> 2, atomic |-> TRUE],
   int32 |-> [size |-> 4, atomic |-> TRUE],
   uint32 |-> [size |-> 4, atomic |-> TRUE],
   float32 |-> [size |-> 4, atomic |-> FALSE],
   float64 |-> [size |-> 8, atomic |-> FALSE]]

PrimNames == DOMAIN builtinTypes

atomicTypes == {"int8", "uint8", "int16", "uint16", "int32", "uint32"}

(***************************************************************************)
(* Characters and names.  A character is a one-character string; CharCode  *)
(* is charCodeAt for the characters the model uses.                        *)
(***************************************************************************)
Upper == <<"A", "B", "C", "D", "E", "F", "G", "H", "I", "J", "K", "L", "M",
           "N", "O", "P", "Q", "R", "S", "T", "U", "V", "W", "X", "Y", "Z">>
Lower == <<"a", "b", "c", "d", "e", "f", "g", "h", "i", "j", "k", "l", "m",
           "n", "o", "p", "q", "r", "s", "t", "u", "v", "w", "x", "y", "z">>
Digit == <<"0", "1", "2", "3", "4", "5", "6", "7", "8", "9">>

IndexIn(seq, c) == CHOOSE i \in 1..Len(seq) : seq[i] = c
InSeq(seq, c) == \E i \in 1..Len(seq) : seq[i] = c

CharCode(c) ==
  IF InSeq(Upper, c) THEN 64 + IndexIn(Upper, c)
  ELSE IF InSeq(Lower, c) THEN 96 + IndexIn(Lower, c)
  ELSE IF InSeq(Digit, c) THEN 47 + IndexIn(Digit, c)
  ELSE IF c = "_" THEN 95
  ELSE IF c = ">" THEN 62
  ELSE IF c = "$" THEN 36
  ELSE 32

\* c >= lo && c <= hi on one-character strings compares character codes
CharBetween(c, lo, hi) == CharCode(c) >= CharCode(lo) /\ CharCode(c) <= CharCode(hi)

(***************************************************************************)
(* computeClassId: the value v of a character (-1: the character is not    *)
(* allowed and computeClassId throws), one step of the loop, and the loop. *)
(***************************************************************************)
ClassIdCharValue(c) ==
  IF CharBetween(c, "A", "Z") THEN CharCode(c) - CharCode("A")
  ELSE IF CharBetween(c, "a", "z") THEN CharCode(c) - CharCode("a") + 26
  ELSE IF CharBetween(c, "0", "9") THEN CharCode(c) - CharCode("0") + 52
  ELSE IF c = "_" THEN 62
  ELSE IF c = ">" THEN 63
  ELSE -1

ClassIdStepWide(n, v) ==
  BitXor(BitOr(Shl(BitAnd(n, 67108863), 3), Ushr(n, 25)), v)

ClassIdStep(n, v) ==
  BitXor(BitOr(Shl(BitAnd(n, 33554431), 3), Ushr(n, 25)), v)

RECURSIVE ClassIdLoop(_, _, _)
ClassIdLoop(name, i, n) ==
  IF i > Len(name) THEN n
  ELSE ClassIdLoop(name, i + 1, ClassIdStep(n, ClassIdCharValue(name[i])))

\* name: a sequence of characters, all of them allowed
computeClassId(name) == ClassIdLoop(name, 1, Len(name))

(***************************************************************************)
(* Lines.  k is the regular expression the line matches:                   *)
(*   "struct"  start_re and struct_re   name                               *)
(*   "class"   start_re and class_re    name, arg = base name or ""        *)
(*   "badopen" start_re only                                               *)
(*   "end"     end_re                                                      *)
(*   "method"  method_re                name, arg = the "(self ..." rest   *)
(*   "special" special_re               qual = get/set/copy, arg = rest    *)
(*   "prop"    prop_re                  name, qual, arg = type name        *)
(*   "aprop"   aprop_re                 name, arg = element type name      *)
(*   "blank"   blank_re and space_re (white space only)                    *)
(*   "comment" blank_re only (a comment)                                   *)
(*   "selfacc" none of them, and holds  SELF_<qual>_<name>(                *)
(*   "selfget" none of them, and holds  SELF_<name>                        *)
(*   "acc"     none of them, and holds  <arg>.<name>(p), <arg>.set_<name>( *)
(*             p, v) or <arg>.ref_<name>(p), as qual is get, set or ref    *)
(*   "text"    none of them             name = the text                    *)
(*   "new"     none of them, and holds  @new <arg>                         *)
(* The lines pasteupTypes emits have kinds of their own (see below).       *)
(***************************************************************************)
(* tail is "," when pasteupTypes appended a comma to the line.              *)
Line(k, name, arg, qual) ==
  [k |-> k, name |-> name, arg |-> arg, qual |-> qual, num |-> 0, tail |-> ""]
NumLine(k, name, arg, num) ==
  [k |-> k, name |-> name, arg |-> arg, qual |-> "", num |-> num, tail |-> ""]
TextLine(t) == Line("text", t, "", "")

\* start_re.test(l)
StartKinds == {"struct", "class", "badopen"}

(***************************************************************************)
(* Errors: what main() dies of.  kind "none": no error.                    *)
(***************************************************************************)
NoError == [kind |-> "none", file |-> "", line |-> 0, what |-> "", names |-> {}]
Error(kind, file, line, what) ==
  [kind |-> kind, file |-> file, line |-> line, what |-> what, names |-> {}]
\* an error without file and line, whose message names some types
ErrorAbout(kind, what, names) ==
  [kind |-> kind, file |-> "", line |-> 0, what |-> what, names |-> names]

(***************************************************************************)
(* References to definitions: null, a primitive, or a user definition      *)
(* (its index in defn).                                                    *)
(***************************************************************************)
NullRef == [tag |-> "null", name |-> "", idx |-> 0]
PrimRef(n) == [tag |-> "prim", name |-> n, idx |-> 0]
UserRef(i) == [tag |-> "user", name |-> "", idx |-> i]

\* class Prop, class Method
Prop(line, name, qual, isArray, typeName) ==
  [line |-> line, name |-> name, qual |-> qual, isArray |-> isArray,
   typeName |-> typeName, typeRef |-> NullRef]

Method(line, kind, name, body) ==
  [line |-> line, kind |-> kind, name |-> name, body |-> body]

\* class MapEntry
MapEntry(name, expand, offset, type) ==
  [name |-> name, expand |-> expand, offset |-> offset, type |-> type]

\* the constructors of ClassDefn and StructDefn (UserDefn, Defn)
HasMethodKind(methods, kind) == \E i \in 1..Len(methods) : methods[i].kind = kind

NewDefn(file, line, name, kind, baseName, props, methods, origin) ==
  [file |-> file, line |-> line, name |-> name, kind |-> kind,
   baseName |-> baseName, props |-> props, methods |-> methods, origin |-> origin,
   size |-> 0, align |-> 0, hasMap |-> FALSE, map |-> << >>,
   live |-> FALSE, checked |-> FALSE,
   baseTypeRef |-> NullRef, className |-> << >>, classId |-> 0,
   subclasses |-> << >>, hasVtable |-> FALSE, vtable |-> << >>,
   hasGetMethod |-> kind = "struct" /\ HasMethodKind(methods, "Get"),
   hasSetMethod |-> kind = "struct" /\ HasMethodKind(methods, "Set")]

(***************************************************************************)
(* collectDefinitions.  i counts the lines consumed, as in the source.     *)
(***************************************************************************)
CollectState0 ==
  [props |-> << >>, methods |-> << >>, in_method |-> FALSE, mbody |-> << >>,
   method_type |-> "Virtual", method_name |-> ""]

FlushMethod(st, i) ==
  IF st.in_method
  THEN Append(st.methods, Method(i, st.method_type, st.method_name, st.mbody))
  ELSE st.methods

SpecialKind(q) ==
  CASE q = "get" -> "Get" [] q = "set" -> "Set" [] q = "copy" -> "Copy" [] OTHER -> "Virtual"

PropQual(q) ==
  CASE q = "synchronic" -> "Synchronic" [] q = "atomic" -> "Atomic" [] OTHER -> "None"

\* the inner loop: the lines of one definition
RECURSIVE CollectBody(_, _, _, _)
CollectBody(filename, lines, i, st) ==
  IF i >= Len(lines) THEN [i |-> i, st |-> st, err |-> NoError]
  ELSE
    LET l == lines[i + 1]
        j == i + 1
    IN
    IF l.k = "end" THEN [i |-> j, st |-> st, err |-> NoError]
    ELSE IF l.k = "method" THEN
      CollectBody(filename, lines, j,
        [st EXCEPT !.methods = FlushMethod(st, j), !.in_method = TRUE,
                   !.method_type = "Virtual", !.method_name = l.name,
                   !.mbody = <<TextLine(l.arg)>>])
    ELSE IF l.k = "special" THEN
      CollectBody(filename, lines, j,
        [st EXCEPT !.methods = FlushMethod(st, j), !.in_method = TRUE,
                   !.method_type = SpecialKind(l.qual), !.method_name = "",
                   !.mbody = <<TextLine(l.arg)>>])
    ELSE IF l.k = "prop" THEN
      CollectBody(filename, lines, j,
        [st EXCEPT !.props = Append(@, Prop(j, l.name, PropQual(l.qual), FALSE, l.arg))])
    ELSE IF l.k = "aprop" THEN
      CollectBody(filename, lines, j,
        [st EXCEPT !.props = Append(@, Prop(j, l.name, "None", TRUE, l.arg))])
    ELSE IF st.in_method THEN
      CollectBody(filename, lines, j, [st EXCEPT !.mbody = Append(@, l)])
    ELSE IF l.k \in {"blank", "comment"} THEN
      CollectBody(filename, lines, j, st)
    ELSE
      [i |-> j, st |-> st,
       err |-> Error("syntax", filename, j, "Not a property or method")]

\* the outer loop
RECURSIVE CollectFrom(_, _, _, _, _)
CollectFrom(filename, lines, i, defs, nlines) ==
  IF i >= Len(lines) THEN [err |-> NoError, defs |-> defs, lines |-> nlines]
  ELSE
    LET l == lines[i + 1]
        j == i + 1
    IN
    IF l.k \notin StartKinds THEN
      CollectFrom(filename, lines, j, defs, Append(nlines, l))
    ELSE IF l.k = "badopen" THEN
      [err |-> Error("syntax", filename, j, "Malformed definition line"),
       defs |-> defs, lines |-> nlines]
    ELSE
      LET b == CollectBody(filename, lines, j, CollectState0)
          d == NewDefn(filename, j, l.name, l.k,
                       IF l.k = "class" THEN l.arg ELSE "",
                       b.st.props, FlushMethod(b.st, b.i), Len(nlines))
      IN
      IF b.err.kind # "none"
      THEN [err |-> b.err, defs |-> defs, lines |-> nlines]
      ELSE CollectFrom(filename, lines, b.i, Append(defs, d), nlines)

collectDefinitions(filename, lines) == CollectFrom(filename, lines, 0, << >>, << >>)

(***************************************************************************)
(* The state of a translation.                                             *)
(*   args        the input files: [ok, name, lines]; ok says that the name *)
(*               ends in .js.parlang or .ts.parlang                        *)
(*   pc, fi      where main() is: the pass to run next, and the index of   *)
(*               the file the collecting or the writing loop is at         *)
(*   allDefs     per file collected: [defs, lines], defs being indices     *)
(*               into defn                                                 *)
(*   defn        the UserDefn objects, in the order of their creation      *)
(*   knownTypes  name -> index into defn                                   *)
(*   knownIds    class id -> class name                                    *)
(*   allTypes    indices into defn                                         *)
(*   err         the error main() died of                                  *)
(*   written     the output files written: [name, lines]                   *)
(*   hname, hpos, hid   computeClassId's name, position and n              *)
(***************************************************************************)
VARIABLES args, pc, fi, allDefs, defn, knownTypes, knownIds, allTypes, err, written,
          hname, hpos, hid,
          src, text, lastIndex, out1, thrown, pp

mainVars == <<args, pc, fi, allDefs, defn, knownTypes, knownIds, allTypes, err, written>>
hashVars == <<hname, hpos, hid>>
\* one text under rewriting: src the text as given, text the text so far,
\* lastIndex the place where the search resumes, out1 the result of a first
\* run, thrown the Error thrown ("": none), pp the state of a ParamParser
textVars == <<src, text, lastIndex, out1, thrown, pp>>
vars == <<args, pc, fi, allDefs, defn, knownTypes, knownIds, allTypes, err, written,
          hname, hpos, hid, src, text, lastIndex, out1, thrown, pp>>

\* no text is under rewriting
NoText ==
  /\ src = << >> /\ text = << >> /\ lastIndex = 0 /\ out1 = << >> /\ thrown = ""
  /\ pp = [pos |-> 0, done |-> FALSE, as |-> << >>, low |-> 0]

Has(f, k) == k \in DOMAIN f
Put(f, k, v) == [x \in (DOMAIN f) \cup {k} |-> IF x = k THEN v ELSE f[x]]

(***************************************************************************)
(* buildTypeMap                                                            *)
(***************************************************************************)
\* the indices of all definitions, file by file
RECURSIVE DefsOfFiles(_, _)
DefsOfFiles(ad, i) ==
  IF i > Len(ad) THEN << >> ELSE ad[i].defs \o DefsOfFiles(ad, i + 1)

RECURSIVE BuildFrom(_, _, _, _, _)
BuildFrom(h, ds, i, kt, at) ==
  IF i > Len(ds) THEN [err |-> NoError, knownTypes |-> kt, allTypes |-> at]
  ELSE
    LET d == h[ds[i]] IN
    IF Has(kt, d.name)
    THEN [err |-> Error("duplicate", d.file, d.line, "Duplicate type name"),
          knownTypes |-> kt, allTypes |-> at]
    ELSE BuildFrom(h, ds, i + 1, Put(kt, d.name, ds[i]), Append(at, ds[i]))

buildTypeMap(h, ad, kt, at) == BuildFrom(h, DefsOfFiles(ad, 1), 1, kt, at)

(***************************************************************************)
(* resolveTypeRefs.  h is the heap of definitions; the result is the heap  *)
(* as the pass leaves it and the error it threw.                           *)
(***************************************************************************)
RECURSIVE ResolveProps(_, _, _, _)
ResolveProps(h, kt, d, pi) ==
  IF pi > Len(h[d].props) THEN [h |-> h, err |-> NoError]
  ELSE
    LET p == h[d].props[pi] IN
    IF p.qual # "None" /\ p.typeName \notin atomicTypes
    THEN [h |-> h, err |-> Error("reference", h[d].file, p.line, "Not an atomic type")]
    ELSE IF p.typeName \in PrimNames
    THEN ResolveProps([h EXCEPT ![d].props[pi].typeRef = PrimRef(p.typeName)], kt, d, pi + 1)
    ELSE IF ~Has(kt, p.typeName)
    THEN [h |-> h, err |-> Error("reference", h[d].file, p.line, "Undefined type")]
    ELSE ResolveProps([h EXCEPT ![d].props[pi].typeRef = UserRef(kt[p.typeName])], kt, d, pi + 1)

\* the base of a class: cls.baseTypeRef.subclasses.push(cls) throws a
\* TypeError when the base is a struct, which has no subclasses
ResolveBase(h, kt, d) ==
  IF h[d].kind = "class" /\ h[d].baseName # ""
  THEN IF ~Has(kt, h[d].baseName)
       THEN [h |-> h, err |-> Error("reference", h[d].file, h[d].line, "Missing base type")]
       ELSE LET b == kt[h[d].baseName]
                h1 == [h EXCEPT ![d].baseTypeRef = UserRef(b)]
            IN IF h[b].kind # "class"
               THEN [h |-> h1, err |-> ErrorAbout("TypeError", "subclasses.push", {})]
               ELSE [h |-> [h1 EXCEPT ![b].subclasses = Append(@, d)], err |-> NoError]
  ELSE [h |-> h, err |-> NoError]

RECURSIVE ResolveFrom(_, _, _, _)
ResolveFrom(h, kt, at, i) ==
  IF i > Len(at) THEN [h |-> h, err |-> NoError]
  ELSE
    LET b == ResolveBase(h, kt, at[i]) IN
    IF b.err.kind # "none" THEN b
    ELSE LET r == ResolveProps(b.h, kt, at[i], 1) IN
         IF r.err.kind # "none" THEN r
         ELSE ResolveFrom(r.h, kt, at, i + 1)

resolveTypeRefs(h, kt, at) == ResolveFrom(h, kt, at, 1)

(***************************************************************************)
(* checkRecursion                                                          *)
(***************************************************************************)
SkipsPropNoArray(p) == p.typeName \in PrimNames

\* if (p.isArray) continue; if (builtinTypes.hasOwnProperty(p.typeName)) continue;
SkipsProp(p) == p.isArray \/ p.typeName \in PrimNames

RECURSIVE checkRecursionForStruct(_, _, _)
RECURSIVE CheckStructProps(_, _, _, _)

CheckStructProps(h, kt, d, pi) ==
  IF pi > Len(h[d].props)
  THEN [h |-> [h EXCEPT ![d].live = FALSE, ![d].checked = TRUE], err |-> NoError]
  ELSE
    LET p == h[d].props[pi] IN
    IF SkipsProp(p)
    THEN CheckStructProps(h, kt, d, pi + 1)
    ELSE
      LET s == kt[p.typeName] IN
      IF h[s].kind # "struct" THEN CheckStructProps(h, kt, d, pi + 1)
      ELSE IF h[s].live
      THEN [h |-> h, err |-> ErrorAbout("recursion", "Recursive type reference to struct",
                                        {p.typeName, h[d].name})]
      ELSE
        LET r == checkRecursionForStruct([h EXCEPT ![d].props[pi].typeRef = UserRef(s)], kt, s)
        IN IF r.err.kind # "none" THEN r
           ELSE CheckStructProps(r.h, kt, d, pi + 1)

checkRecursionForStruct(h, kt, d) ==
  IF h[d].checked THEN [h |-> h, err |-> NoError]
  ELSE CheckStructProps([h EXCEPT ![d].live = TRUE], kt, d, 1)

RECURSIVE checkRecursionForClass(_, _)
checkRecursionForClass(h, d) ==
  IF h[d].checked THEN [h |-> h, err |-> NoError]
  ELSE
    LET h1 == [h EXCEPT ![d].live = TRUE] IN
    IF h1[d].baseTypeRef.tag # "null"
    THEN IF h1[h1[d].baseTypeRef.idx].live
         THEN [h |-> h1, err |-> ErrorAbout("recursion", "Recursive type reference to base class",
                                            {h1[d].name})]
         ELSE LET r == checkRecursionForClass(h1, h1[d].baseTypeRef.idx) IN
              IF r.err.kind # "none" THEN r
              ELSE [h |-> [r.h EXCEPT ![d].live = FALSE, ![d].checked = TRUE], err |-> NoError]
    ELSE [h |-> [h1 EXCEPT ![d].live = FALSE, ![d].checked = TRUE], err |-> NoError]

RECURSIVE CheckFrom(_, _, _, _)
CheckFrom(h, kt, at, i) ==
  IF i > Len(at) THEN [h |-> h, err |-> NoError]
  ELSE
    LET r == IF h[at[i]].kind = "struct"
             THEN checkRecursionForStruct(h, kt, at[i])
             ELSE checkRecursionForClass(h, at[i])
    IN IF r.err.kind # "none" THEN r ELSE CheckFrom(r.h, kt, at, i + 1)

checkRecursion(h, kt, at) == CheckFrom(h, kt, at, 1)

(***************************************************************************)
(* The characters of the type names the model uses (name.charAt).          *)
(***************************************************************************)
Chars(name) ==
  CASE name = "A" -> <<"A">>
    [] name = "B" -> <<"B">>
    [] name = "C" -> <<"C">>
    [] name = "D" -> <<"D">>
    [] name = "E" -> <<"E">>
    [] name = "K" -> <<"K">>
    [] name = "P" -> <<"P">>
    [] name = "S" -> <<"S">>
    [] name = "T" -> <<"T">>
    [] name = "U" -> <<"U">>
    [] name = "BA" -> <<"B", "A">>
    [] name = "AI" -> <<"A", "I">>
    [] name = "Pair" -> <<"P", "a", "i", "r">>
    [] name = "Point" -> <<"P", "o", "i", "n", "t">>
    [] name = "Segment" -> <<"S", "e", "g", "m", "e", "n", "t">>
    [] name = "PairBox" -> <<"P", "a", "i", "r", "B", "o", "x">>
    [] name = "Missing" -> <<"M", "i", "s", "s", "i", "n", "g">>

(***************************************************************************)
(* layoutTypes, layoutClass, layoutStruct, layoutDefn.  A field map is a   *)
(* function from field names to entries; the name of a field is the        *)
(* sequence of the identifiers that "_" joins (identifiers hold no "_").   *)
(***************************************************************************)
\* (size + a - 1) & ~(a - 1)
AlignUp(size, a) == BitAnd(size + a - 1, BitNot(a - 1))

\* the entries that an embedded struct adds under the name root
CompositeEntries(map, root, stmap, size) ==
  LET keys == {<<root>> \o n : n \in DOMAIN stmap}
      old  == (DOMAIN map) \ keys
  IN [k \in old \cup keys |->
        IF k \in keys
        THEN LET fld == stmap[Tail(k)]
             IN MapEntry(<<root>> \o fld.name, fld.expand, size + fld.offset, fld.type)
        ELSE map[k]]

StructTailNoRound(kind, size, align) == size

\* the end of layoutDefn: a struct's size is rounded up to its alignment
StructTail(kind, size, align) ==
  IF kind = "struct" THEN AlignUp(size, align) ELSE size

RECURSIVE LayoutProps(_, _, _, _, _, _)

layoutStruct(h, d) == LayoutProps(h, d, 1, << >>, 0, 0)

\* the loop of layoutDefn over d.props, from property pi on
LayoutProps(h, d, pi, map, size, align) ==
  IF pi > Len(h[d].props)
  THEN [h EXCEPT ![d].map = map, ![d].hasMap = TRUE,
                 ![d].size = StructTail(h[d].kind, size, align), ![d].align = align]
  ELSE
    LET p == h[d].props[pi]
        k == IF p.isArray THEN "class"
             ELSE IF p.typeRef.tag = "prim" THEN "primitive"
             ELSE h[p.typeRef.idx].kind
    IN
    IF k = "primitive" THEN
      LET pt == builtinTypes[p.typeRef.name]
          sz == AlignUp(size, pt.size)
      IN LayoutProps(h, d, pi + 1,
                     Put(map, <<p.name>>, MapEntry(<<p.name>>, TRUE, sz, p.typeRef)),
                     sz + pt.size, Max(align, pt.size))
    ELSE IF k = "class" THEN
      LET sz == BitAnd(size + 3, BitNot(3))
      IN LayoutProps(h, d, pi + 1,
                     Put(map, <<p.name>>, MapEntry(<<p.name>>, TRUE, sz, PrimRef("int32"))),
                     sz + 4, Max(align, 4))
    ELSE
      LET st == p.typeRef.idx
          h1 == IF ~h[st].hasMap THEN layoutStruct(h, st) ELSE h
          sz == AlignUp(size, h1[st].align)
          m1 == Put(map, <<p.name>>, MapEntry(<<p.name>>, FALSE, sz, p.typeRef))
      IN LayoutProps(h1, d, pi + 1,
                     CompositeEntries(m1, p.name, h1[st].map, sz),
                     sz + h1[st].size, Max(align, h1[st].align))

layoutDefn(h, d, map, size, align) == LayoutProps(h, d, 1, map, size, align)

ClassNameFlat(hasBase, baseClassName, name) == Chars(name)

\* d.className: (d.baseTypeRef ? (d.baseTypeRef.className + ">") : "") + d.name
ClassNameOf(hasBase, baseClassName, name) ==
  (IF hasBase THEN baseClassName \o <<">">> ELSE << >>) \o Chars(name)

IdKnownNever(ids, id) == FALSE

\* if (knownIds[d.classId])
IdKnown(ids, id) == Has(ids, id)

RECURSIVE layoutClass(_, _, _)
layoutClass(h, ids, d) ==
  LET b  == h[d].baseTypeRef.idx
      rb == IF h[d].baseName # "" /\ ~h[b].hasMap
            THEN layoutClass(h, ids, b)
            ELSE [h |-> h, ids |-> ids, err |-> NoError]
  IN
  IF rb.err.kind # "none" THEN rb
  ELSE
    LET h1 == IF h[d].baseName # ""
              THEN layoutDefn(rb.h, d, rb.h[b].map, rb.h[b].size, rb.h[b].align)
              ELSE layoutDefn(rb.h, d, << >>, 4, 4)
        cn == ClassNameOf(h[d].baseTypeRef.tag # "null",
                          IF h[d].baseTypeRef.tag # "null" THEN h1[b].className ELSE << >>,
                          h[d].name)
        id == computeClassId(cn)
        h2 == [h1 EXCEPT ![d].className = cn, ![d].classId = id]
    IN
    IF IdKnown(rb.ids, id)
    THEN [h |-> h2, ids |-> rb.ids,
          err |-> ErrorAbout("identity", "Duplicate class ID", {h[d].name})]
    ELSE [h |-> h2, ids |-> Put(rb.ids, id, cn), err |-> NoError]

RECURSIVE LayoutFrom(_, _, _, _)
LayoutFrom(h, ids, at, i) ==
  IF i > Len(at) THEN [h |-> h, ids |-> ids, err |-> NoError]
  ELSE
    LET r == IF h[at[i]].kind = "class"
             THEN layoutClass(h, ids, at[i])
             ELSE [h |-> layoutStruct(h, at[i]), ids |-> ids, err |-> NoError]
    IN IF r.err.kind # "none" THEN r ELSE LayoutFrom(r.h, r.ids, at, i + 1)

layoutTypes(h, ids, at) == LayoutFrom(h, ids, at, 1)

(***************************************************************************)
(* createVirtuals.  An implementation symbol "Class.method_impl" is the    *)
(* pair [cls, meth]; NoImpl is null.                                       *)
(***************************************************************************)
NoImpl == [cls |-> "", meth |-> ""]
Impl(c, m) == [cls |-> c, meth |-> m]

hasMethodAny(h, c, name) == Len(h[c].methods) > 0

\* ClassDefn.hasMethod
hasMethod(h, c, name) == \E i \in 1..Len(h[c].methods) : h[c].methods[i].name = name

\* VirtualMethodNameIterator: all the pairs that next() yields, in order.
\* i is the iterator's index into cls.methods, filter the names yielded.
RECURSIVE VirtualMethodNames(_, _, _, _, _)
VirtualMethodNames(h, cls, i, inherited, filter) ==
  IF i = Len(h[cls].methods)
  THEN IF h[cls].baseTypeRef.tag = "null" THEN << >>
       ELSE VirtualMethodNames(h, h[cls].baseTypeRef.idx, 0, TRUE, filter)
  ELSE
    LET m == h[cls].methods[i + 1] IN
    IF m.kind # "Virtual" \/ m.name = "init" \/ m.name \in filter
    THEN VirtualMethodNames(h, cls, i + 1, inherited, filter)
    ELSE <<[name |-> m.name, inherited |-> inherited]>>
         \o VirtualMethodNames(h, cls, i + 1, inherited, filter \cup {m.name})

\* InclusiveSubclassIterator: the stack holds a class, or a list of classes
\* followed by an index into it.
StackCls(c) == [t |-> "cls", c |-> c, xs |-> << >>, n |-> 0]
StackList(xs) == [t |-> "list", c |-> 0, xs |-> xs, n |-> 0]
StackNum(n) == [t |-> "num", c |-> 0, xs |-> << >>, n |-> n]

Pop(stack) == SubSeq(stack, 1, Len(stack) - 1)
Top(stack) == stack[Len(stack)]

\* a variant that never descends into the subclasses
PushNoSubclasses(h, stack, c) == stack

PushSubclasses(h, stack, c) ==
  IF Len(h[c].subclasses) > 0
  THEN stack \o <<StackList(h[c].subclasses), StackNum(0)>>
  ELSE stack

\* one call of next(): the class returned (0: null) and the stack left
SubclassNext(h, stack) ==
  IF Len(stack) = 0 THEN [cls |-> 0, stack |-> stack]
  ELSE
    LET x == Top(stack) IN
    IF x.t = "num" THEN
      LET xs  == Top(Pop(stack)).xs
          s2  == Pop(Pop(stack))
          cls == xs[x.n + 1]
          s3  == IF x.n + 1 < Len(xs)
                 THEN s2 \o <<StackList(xs), StackNum(x.n + 1)>>
                 ELSE s2
      IN [cls |-> cls, stack |-> PushSubclasses(h, s3, cls)]
    ELSE [cls |-> x.c, stack |-> PushSubclasses(h, Pop(stack), x.c)]

RECURSIVE SubclassesFrom(_, _)
SubclassesFrom(h, stack) ==
  LET r == SubclassNext(h, stack) IN
  IF r.cls = 0 THEN << >> ELSE <<r.cls>> \o SubclassesFrom(h, r.stack)

\* all the classes that the iterator yields for cls, in order
InclusiveSubclasses(h, cls) == SubclassesFrom(h, <<StackCls(cls)>>)

\* findMethodImplFor; stopAt = 0 is null.  thrown: "Method not found"
RECURSIVE findMethodImplFor(_, _, _, _)
findMethodImplFor(h, cls, stopAt, name) ==
  IF cls = stopAt THEN [impl |-> NoImpl, thrown |-> FALSE]
  ELSE IF hasMethod(h, cls, name) THEN [impl |-> Impl(h[cls].name, name), thrown |-> FALSE]
  ELSE IF h[cls].baseTypeRef.tag # "null"
  THEN findMethodImplFor(h, h[cls].baseTypeRef.idx, stopAt, name)
  ELSE [impl |-> NoImpl, thrown |-> TRUE]

\* reverseCases[impl].push(id), the keys kept in the order of their insertion
PushCase(rc, impl, id) ==
  IF \E i \in 1..Len(rc) : rc[i].impl = impl
  THEN [i \in 1..Len(rc) |->
          IF rc[i].impl = impl THEN [rc[i] EXCEPT !.ids = Append(@, id)] ELSE rc[i]]
  ELSE Append(rc, [impl |-> impl, ids |-> <<id>>])

\* the loop over the inclusive subclasses for one method name
RECURSIVE ReverseCases(_, _, _, _, _, _)
ReverseCases(h, cls, mname, subs, i, rc) ==
  IF i > Len(subs) THEN [rc |-> rc, thrown |-> FALSE]
  ELSE
    LET f == findMethodImplFor(h, subs[i], h[cls].baseTypeRef.idx, mname) IN
    IF f.thrown THEN [rc |-> rc, thrown |-> TRUE]
    ELSE IF f.impl = NoImpl THEN ReverseCases(h, cls, mname, subs, i + 1, rc)
    ELSE ReverseCases(h, cls, mname, subs, i + 1, PushCase(rc, f.impl, h[subs[i]].classId))

RECURSIVE VtableFrom(_, _, _, _, _)
VtableFrom(h, cls, mnames, i, vtable) ==
  IF i > Len(mnames) THEN [vtable |-> vtable, thrown |-> FALSE]
  ELSE
    LET mn  == mnames[i]
        r   == ReverseCases(h, cls, mn.name, InclusiveSubclasses(h, cls), 1, << >>)
        def == IF mn.inherited /\ h[cls].baseTypeRef.tag # "null"
               THEN findMethodImplFor(h, h[cls].baseTypeRef.idx, 0, mn.name)
               ELSE [impl |-> NoImpl, thrown |-> FALSE]
    IN
    IF r.thrown \/ def.thrown THEN [vtable |-> vtable, thrown |-> TRUE]
    ELSE VtableFrom(h, cls, mnames, i + 1,
                    Append(vtable, [name |-> mn.name, reverseCases |-> r.rc,
                                    default_ |-> def.impl]))

createVirtualsFor(h, cls) ==
  VtableFrom(h, cls, VirtualMethodNames(h, cls, 0, FALSE, {}), 1, << >>)

RECURSIVE CreateFrom(_, _, _)
CreateFrom(h, at, i) ==
  IF i > Len(at) THEN [h |-> h, err |-> NoError]
  ELSE IF h[at[i]].kind # "class" THEN CreateFrom(h, at, i + 1)
  ELSE
    LET r == createVirtualsFor(h, at[i]) IN
    IF r.thrown
    THEN [h |-> h, err |-> ErrorAbout("internal", "Method not found", {h[at[i]].name})]
    ELSE CreateFrom([h EXCEPT ![at[i]].vtable = r.vtable, ![at[i]].hasVtable = TRUE],
                    at, i + 1)

createVirtuals(h, at) == CreateFrom(h, at, 1)

(***************************************************************************)
(* expandSelfAccessors: the two replacements on one line of a body of a    *)
(* method of type tname, and the pass.                                     *)
(***************************************************************************)
ExpandSelfLine(tname, l) ==
  IF l.k = "selfacc" THEN [l EXCEPT !.k = "acc", !.arg = tname]
  ELSE IF l.k = "selfget" THEN [l EXCEPT !.k = "acc", !.arg = tname, !.qual = "get"]
  ELSE l

ExpandSelfBody(tname, body) == [k \in 1..Len(body) |-> ExpandSelfLine(tname, body[k])]

expandSelfAccessors(h) ==
  [t \in 1..Len(h) |->
     [h[t] EXCEPT !.methods =
        [m \in 1..Len(h[t].methods) |->
           [h[t].methods[m] EXCEPT !.body = ExpandSelfBody(h[t].name, @)]]]]

(***************************************************************************)
(* pasteupTypes.  The kinds of the lines it emits:                         *)
(*   "const" name; "NAME" name; "SIZE" num; "ALIGN" num; "CLSID" num;      *)
(*   "fn" name = the entry's name, arg = the method's first body line;     *)
(*   "dispatch" name = the virtual's name; "switch"; "case" num = an id;   *)
(*   "return" name.arg_impl; "default"; "defreturn" name.arg_impl;         *)
(*   "defthrow"; "endswitch"; "enddispatch"; "initInstance" num = the id;  *)
(*   "close"; "idToType" name, num = the id.                               *)
(***************************************************************************)
\* the name of the entry of a method
ImplEntryName(m) ==
  IF m.name = ""
  THEN CASE m.kind = "Get" -> "_get_impl"
         [] m.kind = "Set" -> "_set_impl"
         [] m.kind = "Copy" -> "_copy_impl"
         [] OTHER -> ""
  ELSE m.name

\* name += "_impl", unless the method is init or an accessor method
ImplSuffixed(m) == m.name # "" /\ m.name # "init"

\* /^\s*$/.test(l)
IsSpace(l) == l.k = "blank"

\* the index (from 1) of the last line of the body that is kept
RECURSIVE LastKept(_, _)
LastKept(body, last) ==
  IF last > 1 /\ IsSpace(body[last]) THEN LastKept(body, last - 1) ELSE last

EmitMethod(m) ==
  LET last == LastKept(m.body, Len(m.body))
      head == [k |-> "fn", name |-> ImplEntryName(m), arg |-> m.body[1].name,
               qual |-> IF ImplSuffixed(m) THEN "_impl" ELSE "", num |-> 0,
               tail |-> IF last = 1 THEN "," ELSE ""]
  IN IF last = 1 THEN <<head>>
     ELSE <<head>> \o SubSeq(m.body, 2, last - 1)
          \o <<[m.body[last] EXCEPT !.tail = ","]>>

RECURSIVE EmitMethods(_, _)
EmitMethods(meths, l) ==
  IF l > Len(meths) THEN << >> ELSE EmitMethod(meths[l]) \o EmitMethods(meths, l + 1)

EmitCases(revs) == [r \in 1..Len(revs) |-> NumLine("case", "", "", revs[r])]

RECURSIVE EmitReverseCases(_, _)
EmitReverseCases(rev, i) ==
  IF i > Len(rev) THEN << >>
  ELSE EmitCases(rev[i].ids)
       \o <<Line("return", rev[i].impl.cls, rev[i].impl.meth, "")>>
       \o EmitReverseCases(rev, i + 1)

EmitVirtual(virtual) ==
  <<Line("dispatch", virtual.name, "", ""), Line("switch", "", "", "")>>
  \o EmitReverseCases(virtual.reverseCases, 1)
  \o <<Line("default", "", "", ""),
       IF virtual.default_ # NoImpl
       THEN Line("defreturn", virtual.default_.cls, virtual.default_.meth, "")
       ELSE Line("defthrow", "", "", ""),
       Line("endswitch", "", "", ""), Line("enddispatch", "", "", "")>>

RECURSIVE EmitVtable(_, _)
EmitVtable(vtable, l) ==
  IF l > Len(vtable) THEN << >> ELSE EmitVirtual(vtable[l]) \o EmitVtable(vtable, l + 1)

\* the lines emitted for one definition
EmitDefn(d) ==
  <<Line("const", d.name, "", ""), Line("NAME", d.name, "", ""),
    NumLine("SIZE", "", "", d.size), NumLine("ALIGN", "", "", d.align)>>
  \o (IF d.kind = "class" THEN <<NumLine("CLSID", "", "", d.classId)>> ELSE << >>)
  \o EmitMethods(d.methods, 1)
  \o (IF d.kind = "class"
      THEN EmitVtable(d.vtable, 1) \o <<NumLine("initInstance", "", "", d.classId)>>
      ELSE << >>)
  \o <<Line("close", "", "", "")>>
  \o (IF d.kind = "class" THEN <<NumLine("idToType", d.name, "", d.classId)>> ELSE << >>)

Min(a, b) == IF a <= b THEN a ELSE b

\* the loop over the definitions of one file; k lines are copied so far
RECURSIVE PasteupFrom(_, _, _, _, _, _)
PasteupFrom(h, defs, lines, j, k, nlines) ==
  IF j > Len(defs) THEN nlines \o SubSeq(lines, k + 1, Len(lines))
  ELSE
    LET d  == h[defs[j]]
        k2 == Max(k, Min(d.origin, Len(lines)))
    IN PasteupFrom(h, defs, lines, j + 1, k2,
                   nlines \o SubSeq(lines, k + 1, k2) \o EmitDefn(d))

\* the retained lines first, the blocks of the definitions after them
pasteupTypesAtEnd(h, ad) ==
  [i \in 1..Len(ad) |->
     [ad[i] EXCEPT !.lines = ad[i].lines \o PasteupFrom(h, ad[i].defs, << >>, 1, 0, << >>)]]

pasteupTypes(h, ad) ==
  [i \in 1..Len(ad) |->
     [ad[i] EXCEPT !.lines = PasteupFrom(h, ad[i].defs, ad[i].lines, 1, 0, << >>)]]

(***************************************************************************)
(* expandGlobalAccessorsAndMacros, on lines whose macro calls are well     *)
(* formed: newMacro on "new" lines, accMacro on "acc" lines.  The lines    *)
(* that result: "alloc" name = the type, num = its size, arg = "init" for  *)
(* a call of initInstance; "load", "store", "ref" num = the offset;        *)
(* "getimpl", "setimpl" name = the struct.                                 *)
(***************************************************************************)
\* the result of a macro on one line: the line, and whether it threw
Expanded(l) == [line |-> l, thrown |-> FALSE]

newMacro(h, kt, l) ==
  IF ~Has(kt, l.arg) THEN [line |-> l, thrown |-> TRUE]
  ELSE Expanded([k |-> "alloc", name |-> l.arg, arg |-> "init", qual |-> "",
                 num |-> h[kt[l.arg]].size, tail |-> l.tail])

loadFromRef(h, l, fld) ==
  IF fld.type.tag = "prim" THEN
    IF l.qual = "get" THEN Expanded([l EXCEPT !.k = "load", !.arg = fld.type.name, !.num = fld.offset])
    ELSE IF l.qual = "set" THEN Expanded([l EXCEPT !.k = "store", !.arg = fld.type.name, !.num = fld.offset])
    ELSE Expanded(l)
  ELSE
    LET t == h[fld.type.idx] IN
    IF l.qual = "get" /\ t.hasGetMethod THEN Expanded([l EXCEPT !.k = "getimpl", !.arg = t.name, !.num = fld.offset])
    ELSE IF l.qual = "set" /\ t.hasSetMethod THEN Expanded([l EXCEPT !.k = "setimpl", !.arg = t.name, !.num = fld.offset])
    ELSE Expanded(l)

accMacro(h, kt, l) ==
  IF ~Has(kt, l.arg) THEN Expanded(l)
  ELSE
    LET cls == h[kt[l.arg]] IN
    IF ~Has(cls.map, <<l.name>>) THEN Expanded(l)
    ELSE
      LET fld == cls.map[<<l.name>>] IN
      IF l.qual = "ref" THEN Expanded([l EXCEPT !.k = "ref", !.num = fld.offset])
      ELSE loadFromRef(h, l, fld)

expandMacrosIn(h, kt, l) ==
  IF l.k = "acc" THEN accMacro(h, kt, l)
  ELSE IF l.k = "new" THEN newMacro(h, kt, l)
  ELSE Expanded(l)

ExpandLines(h, kt, lines) == [j \in 1..Len(lines) |-> expandMacrosIn(h, kt, lines[j])]

expandGlobalAccessorsAndMacros(h, kt, ad) ==
  LET x == [i \in 1..Len(ad) |-> ExpandLines(h, kt, ad[i].lines)] IN
  IF \E i \in 1..Len(ad) : \E j \in 1..Len(x[i]) : x[i][j].thrown
  THEN [allDefs |-> ad, err |-> ErrorAbout("macro", "Unknown type argument to @new", {})]
  ELSE [allDefs |-> [i \in 1..Len(ad) |->
                       [ad[i] EXCEPT !.lines = [j \in 1..Len(x[i]) |-> x[i][j].line]]],
        err |-> NoError]

(***************************************************************************)
(* main(): the passes in the order of the calls.  pc names the pass to run *)
(* next; when a pass throws, err records the error and main() is dead,     *)
(* with pc left at the pass that threw.                                    *)
(***************************************************************************)
NextPassEarlyWrite(p) ==
  CASE p = "collect" -> "buildTypeMap"
    [] p = "buildTypeMap" -> "resolveTypeRefs"
    [] p = "resolveTypeRefs" -> "checkRecursion"
    [] p = "checkRecursion" -> "layoutTypes"
    [] p = "layoutTypes" -> "createVirtuals"
    [] p = "createVirtuals" -> "expandSelfAccessors"
    [] p = "expandSelfAccessors" -> "pasteupTypes"
    [] p = "pasteupTypes" -> "write"
    [] p = "expandGlobalAccessorsAndMacros" -> "write"
    [] p = "write" -> "done"

NextPass(p) ==
  CASE p = "collect" -> "buildTypeMap"
    [] p = "buildTypeMap" -> "resolveTypeRefs"
    [] p = "resolveTypeRefs" -> "checkRecursion"
    [] p = "checkRecursion" -> "layoutTypes"
    [] p = "layoutTypes" -> "createVirtuals"
    [] p = "createVirtuals" -> "expandSelfAccessors"
    [] p = "expandSelfAccessors" -> "pasteupTypes"
    [] p = "pasteupTypes" -> "expandGlobalAccessorsAndMacros"
    [] p = "expandGlobalAccessorsAndMacros" -> "write"
    [] p = "write" -> "done"

Alive == err.kind = "none"

\* one iteration of the first loop of main(): one input file is collected
Collect ==
  /\ pc = "collect" /\ Alive
  /\ LET f == args[fi]
         r == collectDefinitions(f.name, f.lines)
         n == Len(defn)
     IN IF ~f.ok
        THEN /\ err' = Error("filename", f.name, 0, "Bad file name")
             /\ UNCHANGED <<pc, fi, allDefs, defn>>
        ELSE IF r.err.kind # "none"
        THEN /\ err' = r.err
             /\ UNCHANGED <<pc, fi, allDefs, defn>>
        ELSE /\ defn' = defn \o r.defs
             /\ allDefs' = Append(allDefs, [defs |-> [k \in 1..Len(r.defs) |-> n + k],
                                            lines |-> r.lines])
             /\ fi' = IF fi = Len(args) THEN 1 ELSE fi + 1
             /\ pc' = IF fi = Len(args) THEN NextPass("collect") ELSE "collect"
             /\ UNCHANGED err
  /\ UNCHANGED <<args, knownTypes, knownIds, allTypes, written, hashVars, textVars>>

BuildTypeMap ==
  /\ pc = "buildTypeMap" /\ Alive
  /\ LET r == buildTypeMap(defn, allDefs, knownTypes, allTypes) IN
     /\ knownTypes' = r.knownTypes
     /\ allTypes' = r.allTypes
     /\ err' = r.err
     /\ pc' = IF r.err.kind = "none" THEN NextPass(pc) ELSE pc
  /\ UNCHANGED <<args, fi, allDefs, defn, knownIds, written, hashVars, textVars>>

ResolveTypeRefs ==
  /\ pc = "resolveTypeRefs" /\ Alive
  /\ LET r == resolveTypeRefs(defn, knownTypes, allTypes) IN
     /\ defn' = r.h
     /\ err' = r.err
     /\ pc' = IF r.err.kind = "none" THEN NextPass(pc) ELSE pc
  /\ UNCHANGED <<args, fi, allDefs, knownTypes, knownIds, allTypes, written, hashVars, textVars>>

CheckRecursion ==
  /\ pc = "checkRecursion" /\ Alive
  /\ LET r == checkRecursion(defn, knownTypes, allTypes) IN
     /\ defn' = r.h
     /\ err' = r.err
     /\ pc' = IF r.err.kind = "none" THEN NextPass(pc) ELSE pc
  /\ UNCHANGED <<args, fi, allDefs, knownTypes, knownIds, allTypes, written, hashVars, textVars>>

LayoutTypes ==
  /\ pc = "layoutTypes" /\ Alive
  /\ LET r == layoutTypes(defn, knownIds, allTypes) IN
     /\ defn' = r.h
     /\ knownIds' = r.ids
     /\ err' = r.err
     /\ pc' = IF r.err.kind = "none" THEN NextPass(pc) ELSE pc
  /\ UNCHANGED <<args, fi, allDefs, knownTypes, allTypes, written, hashVars, textVars>>

CreateVirtuals ==
  /\ pc = "createVirtuals" /\ Alive
  /\ LET r == createVirtuals(defn, allTypes) IN
     /\ defn' = r.h
     /\ err' = r.err
     /\ pc' = IF r.err.kind = "none" THEN NextPass(pc) ELSE pc
  /\ UNCHANGED <<args, fi, allDefs, knownTypes, knownIds, allTypes, written, hashVars, textVars>>

ExpandSelfAccessors ==
  /\ pc = "expandSelfAccessors" /\ Alive
  /\ defn' = expandSelfAccessors(defn)
  /\ pc' = NextPass(pc)
  /\ UNCHANGED <<args, fi, allDefs, knownTypes, knownIds, allTypes, err, written, hashVars, textVars>>

PasteupTypes ==
  /\ pc = "pasteupTypes" /\ Alive
  /\ allDefs' = pasteupTypes(defn, allDefs)
  /\ pc' = NextPass(pc)
  /\ UNCHANGED <<args, fi, defn, knownTypes, knownIds, allTypes, err, written, hashVars, textVars>>

ExpandGlobalAccessorsAndMacros ==
  /\ pc = "expandGlobalAccessorsAndMacros" /\ Alive
  /\ LET r == expandGlobalAccessorsAndMacros(defn, knownTypes, allDefs) IN
     /\ allDefs' = r.allDefs
     /\ err' = r.err
     /\ pc' = IF r.err.kind = "none" THEN NextPass(pc) ELSE pc
  /\ UNCHANGED <<args, fi, defn, knownTypes, knownIds, allTypes, written, hashVars, textVars>>

\* one iteration of the last loop of main(): one output file is written
WriteFile ==
  /\ pc = "write" /\ Alive
  /\ written' = Append(written, [name |-> args[fi].name, lines |-> allDefs[fi].lines])
  /\ fi' = fi + 1
  /\ pc' = IF fi = Len(args) THEN NextPass("write") ELSE "write"
  /\ UNCHANGED <<args, allDefs, defn, knownTypes, knownIds, allTypes, err, hashVars, textVars>>

Next ==
  \/ Collect
  \/ BuildTypeMap
  \/ ResolveTypeRefs
  \/ CheckRecursion
  \/ LayoutTypes
  \/ CreateVirtuals
  \/ ExpandSelfAccessors
  \/ PasteupTypes
  \/ ExpandGlobalAccessorsAndMacros
  \/ WriteFile

\* the state before main() runs on the files fs
InitWith(fs) ==
  /\ args = fs
  /\ pc = "collect"
  /\ fi = 1
  /\ allDefs = << >>
  /\ defn = << >>
  /\ knownTypes = << >>
  /\ knownIds = << >>
  /\ allTypes = << >>
  /\ err = NoError
  /\ written = << >>
  /\ hname = << >>
  /\ hpos = 0
  /\ hid = 0
  /\ NoText

(***************************************************************************)
(* Input programs.  A definition is described by its kind, name, base,     *)
(* properties and methods, and written out as the lines of its source.     *)
(***************************************************************************)
PropD(name, qual, isArray, type) ==
  [name |-> name, qual |-> qual, isArray |-> isArray, type |-> type]
DefD(kind, name, base, props, methods) ==
  [kind |-> kind, name |-> name, base |-> base, props |-> props, methods |-> methods]

PropLine(p) ==
  IF p.isArray THEN Line("aprop", p.name, p.type, "")
  ELSE Line("prop", p.name, p.type, p.qual)

\* a method: its opening line, a statement, a line that reads SELF_x, a blank line
MethodLines(m) ==
  <<IF m \in {"get", "set", "copy"}
    THEN Line("special", "", "(self)", m)
    ELSE Line("method", m, "(self)", ""),
    TextLine("stmt"), Line("selfget", "x", "", ""), Line("blank", "", "", "")>>

RECURSIVE Flatten(_)
Flatten(ss) == IF Len(ss) = 0 THEN << >> ELSE Head(ss) \o Flatten(Tail(ss))

DefLines(d) ==
  <<Line(d.kind, d.name, d.base, "")>>
  \o [i \in 1..Len(d.props) |-> PropLine(d.props[i])]
  \o Flatten([i \in 1..Len(d.methods) |-> MethodLines(d.methods[i])])
  \o <<Line("end", "", "", "")>>

File(name, lines) == [ok |-> TRUE, name |-> name, lines |-> lines]

\* one file: a line of text, the definitions, a line of text
OneFile(ds) ==
  <<File("f1", <<TextLine("head")>> \o Flatten([i \in 1..Len(ds) |-> DefLines(ds[i])])
               \o <<TextLine("tail")>>)>>

\* two files: the first definition in the first, the others in the second
TwoFiles(ds) ==
  <<File("f1", <<TextLine("head")>> \o DefLines(ds[1])),
    File("f2", Flatten([i \in 1..(Len(ds) - 1) |-> DefLines(ds[i + 1])]) \o <<TextLine("tail")>>)>>

\* the sequences of at most n elements of S
RECURSIVE SeqsUpTo(_, _)
SeqsUpTo(S, n) ==
  IF n = 0 THEN {<< >>}
  ELSE LET shorter == SeqsUpTo(S, n - 1)
       IN shorter \cup {Append(q, x) : q \in shorter, x \in S}

\* properties named by their position
FieldNames == <<"x", "y", "z", "w", "v">>
Named(types) ==
  [i \in 1..Len(types) |->
     PropD(FieldNames[i], "", types[i].isArray, types[i].type)]
NamedBy(names, types) ==
  [i \in 1..Len(types) |-> PropD(names[i], "", types[i].isArray, types[i].type)]
Ty(t) == [isArray |-> FALSE, type |-> t]
Arr(t) == [isArray |-> TRUE, type |-> t]

(***************************************************************************)
(* Bounds.                                                                 *)
(***************************************************************************)
\* the properties of class K in the layout programs
MaxProps == 2
\* the lines of a file in the collector programs
MaxLines == 4
\* the files of a translation in the programs of Spec
MaxFiles == 2
\* the length of the names that computeClassId is stepped through
MaxNameLen == 10

(***************************************************************************)
(* Layout programs: struct E, struct P, class K and class D extends K.     *)
(***************************************************************************)
EOptions == {<< >>, <<Ty("int8")>>, <<Ty("float64")>>}
POptions == {<< >>, <<Ty("float64"), Ty("int32")>>, <<Ty("E")>>, <<Ty("int8"), Ty("E")>>,
             <<Ty("int16"), Ty("K")>>, <<Arr("E")>>}
KTypes == {Ty("int8"), Ty("float64"), Ty("P"), Arr("int32")}
DOptions == {<< >>, <<Ty("int16")>>, <<Ty("P")>>}

LayoutDefs(e, p, k, d, classFirst) ==
  LET E == DefD("struct", "E", "", Named(e), << >>)
      P == DefD("struct", "P", "", Named(p), <<"get">>)
      K == DefD("class", "K", "", Named(k), <<"f">>)
      D == DefD("class", "D", "K", NamedBy(<<"u", "v">>, d), << >>)
  IN IF classFirst THEN <<K, P, E, D>> ELSE <<E, P, K, D>>

\* the example of the specification: Pair and PairBox
Pair ==
  DefD("struct", "Pair", "",
       <<PropD("x", "", FALSE, "float64"), PropD("y", "", FALSE, "int32")>>, <<"get", "set">>)
PairBox ==
  DefD("class", "PairBox", "",
       <<PropD("pad1", "", FALSE, "float32"), PropD("pad2", "", FALSE, "float64"),
         PropD("p", "", FALSE, "Pair"), PropD("pad3", "", FALSE, "int32")>>, << >>)

\* a class that declares a field under the name of a field of its base
Redeclaring ==
  <<DefD("class", "K", "", <<PropD("x", "", FALSE, "int32")>>, <<"f">>),
    DefD("class", "D", "K", <<PropD("x", "", FALSE, "int8")>>, << >>)>>

LayoutPrograms ==
  {OneFile(LayoutDefs(e, p, k, d, cf)) :
     e \in EOptions, p \in POptions, k \in SeqsUpTo(KTypes, MaxProps),
     d \in DOptions, cf \in BOOLEAN}
  \cup {OneFile(<<Pair, PairBox>>), OneFile(<<PairBox, Pair>>), OneFile(Redeclaring)}

(***************************************************************************)
(* Class programs: classes A, B and C with any bases and some methods, in  *)
(* two orders; and classes BA and AI, whose names hash to the same value.  *)
(***************************************************************************)
ClassNames == {"A", "B", "C"}
BaseOptions == {""} \cup ClassNames
MethodOptions == {<< >>, <<"f">>, <<"g">>, <<"init", "f", "g">>}

ClassDefs(ba, bb, bc, ma, mb, mc, reversed) ==
  LET A == DefD("class", "A", ba, <<PropD("x", "", FALSE, "int32")>>, ma)
      B == DefD("class", "B", bb, << >>, mb)
      C == DefD("class", "C", bc, <<PropD("y", "", FALSE, "int8")>>, mc)
  IN IF reversed THEN <<C, B, A>> ELSE <<A, B, C>>

IdDefs(b1, b2, m) ==
  <<DefD("class", "A", "", << >>, <<"f">>),
    DefD("class", "BA", b1, << >>, m),
    DefD("class", "AI", b2, << >>, << >>)>>

ClassPrograms ==
  {TwoFiles(ClassDefs(ba, bb, bc, ma, mb, mc, r)) :
     ba \in BaseOptions, bb \in BaseOptions, bc \in BaseOptions,
     ma \in MethodOptions, mb \in MethodOptions, mc \in MethodOptions, r \in BOOLEAN}
  \cup {TwoFiles(IdDefs(b1, b2, m)) : b1 \in {"", "A"}, b2 \in {"", "A"}, m \in MethodOptions}

(***************************************************************************)
(* Reference programs: struct S, class B and class K, whose base and       *)
(* properties may or may not resolve.                                      *)
(***************************************************************************)
RefProps ==
  {PropD("a", "", FALSE, "int32"), PropD("a", "atomic", FALSE, "int32"),
   PropD("a", "synchronic", FALSE, "uint8"), PropD("a", "atomic", FALSE, "float32"),
   PropD("a", "synchronic", FALSE, "S"), PropD("a", "", FALSE, "S"),
   PropD("a", "", FALSE, "Missing"), PropD("a", "", TRUE, "Missing"),
   PropD("a", "", TRUE, "float64"), PropD("a", "", FALSE, "B")}

Rename(ps) == [i \in 1..Len(ps) |-> [ps[i] EXCEPT !.name = FieldNames[i]]]

RefDefs(sp, kb, kp, bb) ==
  <<DefD("struct", "S", "", Rename(sp), << >>),
    DefD("class", "K", kb, Rename(kp), <<"f">>),
    DefD("class", "B", bb, << >>, << >>)>>

ReferencePrograms ==
  {OneFile(RefDefs(sp, kb, kp, bb)) :
     sp \in {<< >>, <<PropD("a", "", FALSE, "Missing")>>,
             <<PropD("a", "atomic", FALSE, "float64")>>, <<PropD("a", "", FALSE, "K")>>},
     kb \in {"", "B", "Missing", "S"},
     kp \in SeqsUpTo(RefProps, 2),
     bb \in {"", "Missing"}}

(***************************************************************************)
(* Recursion programs: structs S, T and U that hold each other, by value   *)
(* or in arrays, with a class K that holds S; and classes A and B with any *)
(* bases.                                                                  *)
(***************************************************************************)
HoldOptions ==
  {<< >>, <<Ty("S")>>, <<Ty("T")>>, <<Ty("U")>>, <<Arr("S")>>, <<Ty("T"), Ty("U")>>,
   <<Ty("int32"), Ty("K")>>, <<Arr("U"), Ty("S")>>}

RecursionPrograms ==
  {OneFile(<<DefD("struct", "S", "", Named(s), << >>),
             DefD("struct", "T", "", Named(t), << >>),
             DefD("class", "K", "", Named(<<Ty("S")>>), <<"f">>),
             DefD("struct", "U", "", Named(u), << >>)>>) :
     s \in HoldOptions, t \in HoldOptions, u \in HoldOptions}
  \cup {OneFile(<<DefD("class", "A", ba, << >>, << >>),
                  DefD("class", "B", bb, << >>, <<"f">>),
                  DefD("class", "C", bc, << >>, << >>)>>) :
          ba \in BaseOptions, bb \in BaseOptions, bc \in BaseOptions}

(***************************************************************************)
(* Collector programs: one file of any lines.                              *)
(***************************************************************************)
CollectorLines ==
  {Line("struct", "S", "", ""), Line("class", "K", "", ""), Line("end", "", "", ""),
   Line("method", "f", "(self)", ""), Line("prop", "x", "int32", ""),
   TextLine("stmt"), Line("blank", "", "", ""), Line("badopen", "", "", "")}

CollectorPrograms == {<<File("f1", ls)>> : ls \in SeqsUpTo(CollectorLines, MaxLines)}

(***************************************************************************)
(* Programs of several files, each of which may fail one of the passes.    *)
(***************************************************************************)
ClassA == DefD("class", "A", "", <<PropD("x", "", FALSE, "int32")>>, <<"f">>)

FilePool ==
  {<<TextLine("stmt")>>,
   DefLines(ClassA) \o <<TextLine("stmt")>>,
   <<TextLine("stmt")>> \o DefLines(DefD("class", "B", "A", << >>, <<"f">>)),
   <<Line("badopen", "", "", "")>>,
   DefLines(DefD("struct", "A", "", << >>, << >>)),
   DefLines(DefD("struct", "S", "", <<PropD("x", "atomic", FALSE, "float32")>>, << >>)),
   DefLines(DefD("struct", "T", "", <<PropD("t", "", FALSE, "T")>>, << >>)),
   DefLines(DefD("class", "BA", "", << >>, << >>)),
   DefLines(DefD("class", "AI", "", << >>, << >>)) \o <<Line("new", "", "AI", "")>>,
   <<Line("new", "", "A", "")>>}

\* the files named by their position; a file of the pool, or a file whose
\* name does not end in .js.parlang or .ts.parlang
FileNames == <<"f1", "f2", "f3", "f4">>
MainFiles == {File("", ls) : ls \in FilePool} \cup {[ok |-> FALSE, name |-> "", lines |-> << >>]}

MainPrograms ==
  {[i \in 1..Len(fs) |-> [fs[i] EXCEPT !.name = FileNames[i]]] :
     fs \in SeqsUpTo(MainFiles, MaxFiles) \ {<< >>}}

InitMain == \E fs \in MainPrograms : InitWith(fs)
InitLayout == \E fs \in LayoutPrograms : InitWith(fs)
InitClasses == \E fs \in ClassPrograms : InitWith(fs)
InitReferences == \E fs \in ReferencePrograms : InitWith(fs)
InitRecursion == \E fs \in RecursionPrograms : InitWith(fs)
InitCollector == \E fs \in CollectorPrograms : InitWith(fs)

Spec == InitMain /\ [][Next]_vars
SpecLayout == InitLayout /\ [][Next]_vars
SpecClasses == InitClasses /\ [][Next]_vars
SpecReferences == InitReferences /\ [][Next]_vars
SpecRecursion == InitRecursion /\ [][Next]_vars
SpecCollector == InitCollector /\ [][Next]_vars

(***************************************************************************)
(* computeClassId, stepped through its loop: hname is the name, hpos the   *)
(* number of characters consumed (-1: it threw on a character that is not  *)
(* allowed), hid the value of n.                                           *)
(***************************************************************************)
ClassIdNames ==
  SeqsUpTo({"A", ">"}, MaxNameLen) \cup {<<"$">>, <<">", "$", "A">>}

InitClassId ==
  /\ args = << >>
  /\ pc = "computeClassId"
  /\ fi = 1
  /\ allDefs = << >>
  /\ defn = << >>
  /\ knownTypes = << >>
  /\ knownIds = << >>
  /\ allTypes = << >>
  /\ err = NoError
  /\ written = << >>
  /\ hname \in ClassIdNames
  /\ hpos = 0
  /\ hid = Len(hname)
  /\ NoText

\* one iteration of the loop of computeClassId
ClassIdIteration ==
  /\ pc = "computeClassId"
  /\ hpos >= 0 /\ hpos < Len(hname)
  /\ LET v == ClassIdCharValue(hname[hpos + 1]) IN
     IF v < 0
     THEN hpos' = -1 /\ hid' = hid
     ELSE hpos' = hpos + 1 /\ hid' = ClassIdStep(hid, v)
  /\ UNCHANGED <<hname, mainVars, textVars>>

SpecClassId == InitClassId /\ [][ClassIdIteration]_vars

(***************************************************************************)
(* C5: computeClassId(name) is in [0, 2^28) for every name of allowed      *)
(* characters: n starts at the length of the name and every iteration of   *)
(* the loop keeps it nonnegative and below 2^28; the value at the end of   *)
(* the loop is the value that layoutClass stores.                          *)
(***************************************************************************)
C5_ClassIdIn28Bits ==
  (pc = "computeClassId" /\ hpos >= 0) =>
     /\ 0 <= hid /\ hid < TwoTo[28]
     /\ hpos = Len(hname) => hid = computeClassId(hname)

\* a name of the greatest length is hashed to the end and bit 27 is set
C5_Witness ==
  /\ pc = "computeClassId"
  /\ Len(hname) = MaxNameLen /\ hpos = Len(hname)
  /\ hid >= TwoTo[27]

(***************************************************************************)
(* What the claims speak of.                                               *)
(***************************************************************************)
PassOrder ==
  <<"collect", "buildTypeMap", "resolveTypeRefs", "checkRecursion", "layoutTypes",
    "createVirtuals", "expandSelfAccessors", "pasteupTypes",
    "expandGlobalAccessorsAndMacros", "write", "done">>

PassRank(p) == IF InSeq(PassOrder, p) THEN IndexIn(PassOrder, p) ELSE 0

\* pass p has run to its end without an error
Passed(p) == PassRank(pc) > PassRank(p)
\* pass p has thrown
Threw(p) == pc = p /\ ~Alive
\* pass p has run, to its end or to an error
Ran(p) == Passed(p) \/ Threw(p)

Types == 1..Len(defn)
Classes == {d \in Types : defn[d].kind = "class"}
Structs == {d \in Types : defn[d].kind = "struct"}

\* the kind of slot that a resolved property takes
SlotKind(p) ==
  IF p.isArray THEN "pointer"
  ELSE IF p.typeRef.tag = "prim" THEN "primitive"
  ELSE IF defn[p.typeRef.idx].kind = "class" THEN "pointer"
  ELSE "struct"

(***************************************************************************)
(* The reference layout: a plain recursive sum over aligned field sizes.   *)
(***************************************************************************)
\* n rounded up to a multiple of a
RoundUp(n, a) == IF a = 0 THEN n ELSE ((n + a - 1) \div a) * a

RECURSIVE RefLayout(_)
RECURSIVE RefPlace(_, _, _)

RefSlotAlign(p) ==
  CASE SlotKind(p) = "primitive" -> builtinTypes[p.typeRef.name].size
    [] SlotKind(p) = "pointer" -> 4
    [] OTHER -> RefLayout(p.typeRef.idx).align

RefSlotSize(p) ==
  CASE SlotKind(p) = "primitive" -> builtinTypes[p.typeRef.name].size
    [] SlotKind(p) = "pointer" -> 4
    [] OTHER -> RefLayout(p.typeRef.idx).size

\* the properties of d from pi on, placed after acc = [size, align, offs]
RefPlace(d, pi, acc) ==
  IF pi > Len(defn[d].props) THEN acc
  ELSE
    LET p   == defn[d].props[pi]
        at  == RoundUp(acc.size, RefSlotAlign(p))
        sub == IF SlotKind(p) = "struct" THEN RefLayout(p.typeRef.idx).offs ELSE << >>
        own == [n \in {<<p.name>>} \cup {<<p.name>> \o m : m \in DOMAIN sub} |->
                  IF n = <<p.name>> THEN at ELSE at + sub[Tail(n)]]
    IN RefPlace(d, pi + 1,
                [size |-> at + RefSlotSize(p),
                 align |-> Max(acc.align, RefSlotAlign(p)),
                 offs |-> [n \in (DOMAIN acc.offs) \cup (DOMAIN own) |->
                             IF n \in DOMAIN own THEN own[n] ELSE acc.offs[n]]])

\* the reference layout of d: its size, its alignment and the offset of
\* every field name
RefLayout(d) ==
  LET start == IF defn[d].kind = "struct" THEN [size |-> 0, align |-> 0, offs |-> << >>]
               ELSE IF defn[d].baseTypeRef.tag = "null"
               THEN [size |-> 4, align |-> 4, offs |-> << >>]
               ELSE RefLayout(defn[d].baseTypeRef.idx)
      r == RefPlace(d, 1, start)
  IN IF defn[d].kind = "struct" THEN [r EXCEPT !.size = RoundUp(r.size, r.align)] ELSE r

\* the offsets of the field map of d
Offsets(d) == [n \in DOMAIN defn[d].map |-> defn[d].map[n].offset]

(***************************************************************************)
(* C1: for every type that lays out successfully, the offset of each entry *)
(* of its field map is the offset of the reference layout: a class starts  *)
(* at 4 or at the size of its base, a struct at 0; each property is placed *)
(* at the running size rounded up to its alignment; every leaf n of an     *)
(* embedded struct field p is also entered as p_n at offset(p)+offset(n).  *)
(***************************************************************************)
C1_OffsetsEqualReference ==
  Passed("layoutTypes") => \A d \in Types : Offsets(d) = RefLayout(d).offs

\* layout agrees with the reference on Pair and PairBox
C1_Example ==
  /\ Passed("layoutTypes")
  /\ \E d \in Classes :
       /\ defn[d].name = "PairBox"
       /\ Offsets(d) = (<<"pad1">> :> 4) @@ (<<"pad2">> :> 8) @@ (<<"p">> :> 16)
                        @@ (<<"pad3">> :> 32) @@ (<<"p", "x">> :> 16) @@ (<<"p", "y">> :> 24)
       /\ Offsets(d) = RefLayout(d).offs

(***************************************************************************)
(* C2: after layoutTypes every class has SIZE >= 4 and ALIGN >= 4 and no   *)
(* entry of its field map has an offset below 4.                           *)
(***************************************************************************)
C2_ClassIdSlotReserved ==
  Passed("layoutTypes") =>
    \A d \in Classes :
      /\ defn[d].size >= 4
      /\ defn[d].align >= 4
      /\ \A n \in DOMAIN defn[d].map : defn[d].map[n].offset >= 4

(***************************************************************************)
(* C3: after layoutTypes the size of every struct is a multiple of its     *)
(* alignment, so that the elements of an array of the struct that starts   *)
(* at an aligned address are aligned.                                      *)
(***************************************************************************)
MultipleOf(n, a) == IF a = 0 THEN n = 0 ELSE n % a = 0

C3_StructSizeMultipleOfAlign ==
  Passed("layoutTypes") =>
    \A d \in Structs :
      /\ MultipleOf(defn[d].size, defn[d].align)
      /\ \A i \in 0..3 : \A a \in {0, defn[d].align, 5 * defn[d].align} :
           MultipleOf(a + defn[d].size * i, defn[d].align)

\* a struct laid out with x:float64 at 0 and y:int32 at 8 has size 16, align 8
C3_Witness ==
  /\ Passed("layoutTypes")
  /\ \E d \in Structs :
       /\ Offsets(d) = (<<"x">> :> 0) @@ (<<"y">> :> 8)
       /\ defn[d].size = 16 /\ defn[d].align = 8

(***************************************************************************)
(* The class hierarchy as the declarations give it: the parent of a class  *)
(* is the type that carries its base name.                                 *)
(***************************************************************************)
ParentOf(d) ==
  IF defn[d].baseName = "" THEN 0
  ELSE CHOOSE b \in Types : defn[b].name = defn[d].baseName

\* the chain from d upward: d, its parent, ...
RECURSIVE Chain(_)
Chain(d) == IF d = 0 THEN << >> ELSE <<d>> \o Chain(ParentOf(d))

\* the dotted name of a class: the names of its chain from the root, joined by ">"
RECURSIVE DottedName(_)
DottedName(d) ==
  IF ParentOf(d) = 0 THEN Chars(defn[d].name)
  ELSE DottedName(ParentOf(d)) \o <<">">> \o Chars(defn[d].name)

SameHash(c1, c2) == computeClassId(DottedName(c1)) = computeClassId(DottedName(c2))

(***************************************************************************)
(* C4: after layoutTypes completes without error any two distinct classes  *)
(* have different class identifiers; if the dotted names of two distinct   *)
(* classes hash to the same identifier, layoutTypes fails with the         *)
(* duplicate-class-ID error instead of completing.                         *)
(***************************************************************************)
C4_ClassIdsDistinct ==
  /\ Passed("layoutTypes") =>
       \A c1 \in Classes : \A c2 \in Classes : c1 # c2 => defn[c1].classId # defn[c2].classId
  /\ (Ran("layoutTypes") /\ \E c1 \in Classes : \E c2 \in Classes : c1 # c2 /\ SameHash(c1, c2))
       => (Threw("layoutTypes") /\ err.kind = "identity" /\ err.what = "Duplicate class ID")

\* classes BA and AI, both without a base, hash to 136: layoutTypes has thrown
C4_Witness ==
  /\ Threw("layoutTypes") /\ err.kind = "identity"
  /\ \E c1 \in Classes : \E c2 \in Classes :
       /\ defn[c1].name = "BA" /\ defn[c2].name = "AI"
       /\ defn[c1].baseName = "" /\ defn[c2].baseName = ""
       /\ SameHash(c1, c2)
       /\ defn[c1].classId = 136

(***************************************************************************)
(* The dispatchers as they are emitted, and where a class id is sent.      *)
(***************************************************************************)
Least(S) == CHOOSE x \in S : \A y \in S : x <= y
Greatest(S) == CHOOSE x \in S : \A y \in S : y <= x

\* the name of the definition whose emitted text holds line j
Owner(ls, j) ==
  LET cs == {c \in 1..j : ls[c].k = "const"}
  IN IF cs = {} THEN "" ELSE ls[Greatest(cs)].name

\* the places <<file, line>> where the dispatcher of class cname for m starts
Dispatchers(cname, m) ==
  {fj \in UNION {{<<i, j>> : j \in 1..Len(allDefs[i].lines)} : i \in 1..Len(allDefs)} :
     /\ allDefs[fj[1]].lines[fj[2]].k = "dispatch"
     /\ allDefs[fj[1]].lines[fj[2]].name = m
     /\ Owner(allDefs[fj[1]].lines, fj[2]) = cname}

\* what the switch that starts at line j of ls does with class id id
Route(ls, j, id) ==
  LET end   == Least({e \in j..Len(ls) : ls[e].k = "enddispatch"})
      cases == {c \in j..end : ls[c].k = "case" /\ ls[c].num = id}
      dflt  == Least({e \in j..end : ls[e].k = "default"}) + 1
  IN IF cases # {}
     THEN LET r == Least({r \in Least(cases)..end : ls[r].k = "return"})
          IN [via |-> "case", cls |-> ls[r].name, meth |-> ls[r].arg]
     ELSE IF ls[dflt].k = "defreturn"
     THEN [via |-> "default", cls |-> ls[dflt].name, meth |-> ls[dflt].arg]
     ELSE [via |-> "throw", cls |-> "", meth |-> ""]

\* class d declares the virtual method m
Declares(d, m) ==
  \E i \in 1..Len(defn[d].methods) :
    defn[d].methods[i].kind = "Virtual" /\ defn[d].methods[i].name = m

\* the first class of the chain that declares m; 0 if none does
RECURSIVE NearestIn(_, _)
NearestIn(chain, m) ==
  IF chain = << >> THEN 0
  ELSE IF Declares(Head(chain), m) THEN Head(chain)
  ELSE NearestIn(Tail(chain), m)

Visible(c, m) == m # "init" /\ NearestIn(Chain(c), m) # 0

\* c and its transitive subclasses
SubclassesOf(c) == {s \in Classes : InSeq(Chain(s), c)}

\* the classes from s up to c, both included
UpTo(s, c) == {Chain(s)[i] : i \in 1..IndexIn(Chain(s), c)}

VirtualNames ==
  UNION {{defn[d].methods[i].name : i \in 1..Len(defn[d].methods)} : d \in Classes} \ {""}

\* where the dispatcher of c for m has to send the class id of s
Nearest(c, s, m) ==
  LET n == NearestIn(Chain(s), m)
  IN [via |-> IF n \in UpTo(s, c) THEN "case" ELSE "default",
      cls |-> defn[n].name, meth |-> m]

(***************************************************************************)
(* C6: for every class C and every virtual method name m visible in C      *)
(* (declared in C or an ancestor, init excluded) the dispatcher emitted    *)
(* for C.m sends the class id of C and of every transitive subclass S of C *)
(* to the nearest implementation of m on the chain from S upward: by a     *)
(* case label when that implementation lies between S and C inclusive,     *)
(* by the default branch otherwise.                                        *)
(***************************************************************************)
C6_DispatchToNearestImpl ==
  Passed("pasteupTypes") =>
    \A c \in Classes : \A m \in VirtualNames :
      Visible(c, m) =>
        /\ Cardinality(Dispatchers(defn[c].name, m)) = 1
        /\ \A fj \in Dispatchers(defn[c].name, m) : \A s \in SubclassesOf(c) :
             Route(allDefs[fj[1]].lines, fj[2], defn[s].classId) = Nearest(c, s, m)

\* A {f}, B extends A {f}, C extends B: the dispatchers are emitted, and C.f
\* sends the id of C to B.f_impl by its default branch
C6_Witness ==
  /\ Passed("pasteupTypes")
  /\ \E a \in Classes : \E b \in Classes : \E c \in Classes :
       /\ ParentOf(a) = 0 /\ ParentOf(b) = a /\ ParentOf(c) = b
       /\ Declares(a, "f") /\ Declares(b, "f") /\ ~Declares(c, "f")
       /\ \E fj \in Dispatchers(defn[a].name, "f") :
            /\ Route(allDefs[fj[1]].lines, fj[2], defn[a].classId).cls = defn[a].name
            /\ Route(allDefs[fj[1]].lines, fj[2], defn[b].classId).cls = defn[b].name
            /\ Route(allDefs[fj[1]].lines, fj[2], defn[c].classId)
                 = [via |-> "case", cls |-> defn[b].name, meth |-> "f"]
       /\ \E fj \in Dispatchers(defn[c].name, "f") :
            Route(allDefs[fj[1]].lines, fj[2], defn[c].classId)
              = [via |-> "default", cls |-> defn[b].name, meth |-> "f"]

(***************************************************************************)
(* The two graphs of the declarations: a type holds the structs that are   *)
(* the types of its properties that are not arrays; a class extends its    *)
(* base.                                                                   *)
(***************************************************************************)
Holds(d) ==
  {t \in Structs : \E i \in 1..Len(defn[d].props) :
     ~defn[d].props[i].isArray /\ defn[d].props[i].typeName = defn[t].name}

Extends(d) ==
  IF defn[d].kind = "class" THEN {b \in Types : defn[b].name = defn[d].baseName} ELSE {}

\* the types that n steps or fewer lead to from the types of S
RECURSIVE HeldWithin(_, _)
HeldWithin(S, n) ==
  IF n = 0 THEN S ELSE HeldWithin(S \cup UNION {Holds(d) : d \in S}, n - 1)

RECURSIVE ExtendedWithin(_, _)
ExtendedWithin(S, n) ==
  IF n = 0 THEN S ELSE ExtendedWithin(S \cup UNION {Extends(d) : d \in S}, n - 1)

OnCycle(d) ==
  \/ d \in HeldWithin(Holds(d), Len(defn))
  \/ d \in ExtendedWithin(Extends(d), Len(defn))

HasCycle == \E d \in Types : OnCycle(d)

(***************************************************************************)
(* C7: checkRecursion raises a recursion error exactly when the graph of   *)
(* by-value struct containment or the graph of class inheritance has a     *)
(* cycle, and the diagnostic names a type of a cycle; otherwise it         *)
(* completes with every definition checked and none live.                  *)
(***************************************************************************)
C7_RecursionErrorIffCycle ==
  /\ Passed("checkRecursion") =>
       /\ ~HasCycle
       /\ \A d \in Types : defn[d].checked /\ ~defn[d].live
  /\ Threw("checkRecursion") =>
       /\ HasCycle
       /\ err.kind = "recursion"
       /\ \E d \in Types : OnCycle(d) /\ defn[d].name \in err.names

\* struct S {a:T} and struct T {a:S}: the error names S or T
C7_Witness ==
  /\ Threw("checkRecursion") /\ err.kind = "recursion"
  /\ \E s \in Structs : \E t \in Structs :
       /\ defn[s].name = "S" /\ defn[t].name = "T"
       /\ Holds(s) = {t} /\ Holds(t) = {s}
  /\ err.names \subseteq {"S", "T"} /\ err.names # {}

(***************************************************************************)
(* C8: an unterminated definition is an error: a file that ends after a    *)
(* definition opener and before the closing "} @end" line makes            *)
(* collectDefinitions raise an error; the file is not recorded.            *)
(***************************************************************************)
\* the lines hold an opener that no closing line follows
Unterminated(ls) ==
  \E o \in 1..Len(ls) :
    /\ ls[o].k \in {"struct", "class"}
    /\ \A j \in (o + 1)..Len(ls) : ls[j].k # "end"

C8_UnterminatedIsError ==
  \A i \in 1..Len(args) :
    (args[i].ok /\ Unterminated(args[i].lines)) => Len(allDefs) < i

(***************************************************************************)
(* C9: resolveTypeRefs completes only if every nonempty base name and      *)
(* every property type name resolves and every qualified property names an *)
(* integer primitive; otherwise it fails with a reference error that       *)
(* carries file and line.  On success every property has a bound typeRef   *)
(* and each class with a base is listed exactly once in the subclasses of  *)
(* its base.                                                               *)
(***************************************************************************)
IntegerPrims == {"int8", "uint8", "int16", "uint16", "int32", "uint32"}

Registered(name) == \E t \in Types : defn[t].name = name

RefsOK ==
  \A d \in Types :
    /\ (defn[d].kind = "class" /\ defn[d].baseName # "") => Registered(defn[d].baseName)
    /\ \A i \in 1..Len(defn[d].props) :
         LET p == defn[d].props[i] IN
         /\ p.typeName \in PrimNames \/ Registered(p.typeName)
         /\ p.qual # "None" => p.typeName \in IntegerPrims

TimesIn(xs, x) == Cardinality({i \in 1..Len(xs) : xs[i] = x})

C9_ResolveOrReferenceError ==
  /\ Passed("resolveTypeRefs") =>
       /\ RefsOK
       /\ \A d \in Types : \A i \in 1..Len(defn[d].props) :
            defn[d].props[i].typeRef.tag # "null"
       /\ \A c \in Classes : defn[c].baseName # "" =>
            /\ defn[c].baseTypeRef = UserRef(ParentOf(c))
            /\ TimesIn(defn[ParentOf(c)].subclasses, c) = 1
  /\ (Ran("resolveTypeRefs") /\ ~RefsOK) =>
       /\ Threw("resolveTypeRefs")
       /\ err.kind = "reference" /\ err.file # "" /\ err.line > 0

(***************************************************************************)
(* C10: the passes run in the fixed order collect, register, resolve,      *)
(* cycle-check, layout, vtable, self-expansion, paste-up, macro expansion, *)
(* each over all the input files before the next starts; the output files  *)
(* are written only after the last pass has finished for every file, so    *)
(* that an error in any pass for any file leaves no output file written.   *)
(***************************************************************************)
\* the definitions that file i declares
DefsOf(i) == {allDefs[i].defs[k] : k \in 1..Len(allDefs[i].defs)}

BodyKinds(d) ==
  UNION {{defn[d].methods[m].body[k].k : k \in 1..Len(defn[d].methods[m].body)} :
           m \in 1..Len(defn[d].methods)}

LineKinds(i) == {allDefs[i].lines[j].k : j \in 1..Len(allDefs[i].lines)}

\* pass p has done its work on every definition of file i
DoneFor(p, i) ==
  CASE p = "collect" -> TRUE
    [] p = "buildTypeMap" -> \A d \in DefsOf(i) : InSeq(allTypes, d)
    [] p = "resolveTypeRefs" ->
         \A d \in DefsOf(i) : \A k \in 1..Len(defn[d].props) : defn[d].props[k].typeRef.tag # "null"
    [] p = "checkRecursion" -> \A d \in DefsOf(i) : defn[d].checked
    [] p = "layoutTypes" -> \A d \in DefsOf(i) : defn[d].hasMap
    [] p = "createVirtuals" -> \A d \in DefsOf(i) : defn[d].kind = "class" => defn[d].hasVtable
    [] p = "expandSelfAccessors" ->
         \A d \in DefsOf(i) : BodyKinds(d) \cap {"selfacc", "selfget"} = {}
    [] p = "pasteupTypes" ->
         \A d \in DefsOf(i) : \E j \in 1..Len(allDefs[i].lines) :
           allDefs[i].lines[j].k = "const" /\ allDefs[i].lines[j].name = defn[d].name
    [] p = "expandGlobalAccessorsAndMacros" -> "new" \notin LineKinds(i)
    [] OTHER -> TRUE

PassesInOrder ==
  [][pc' # pc =>
       /\ PassRank(pc) > 0 /\ PassRank(pc') = PassRank(pc) + 1
       /\ Len(allDefs') = Len(args)
       /\ \E p \in {pc} : \A i \in 1..Len(args) : DoneFor(p, i)']_vars

NoPartialOutput ==
  /\ written # << >> => (Alive /\ pc \in {"write", "done"})
  /\ ~Alive => written = << >>
  /\ \A p \in {PassOrder[r] : r \in 1..9} :
       Passed(p) => Len(allDefs) = Len(args) /\ \A i \in 1..Len(args) : DoneFor(p, i)
  /\ \A w \in 1..Len(written) :
       written[w] = [name |-> args[w].name, lines |-> allDefs[w].lines]
  /\ pc = "done" => Len(written) = Len(args)

C10_PassOrderNoPartialOutput == []NoPartialOutput /\ PassesInOrder

\* the last pass has thrown on the second of two files, after all the other
\* passes ran: nothing is written
C10_Witness ==
  /\ Threw("expandGlobalAccessorsAndMacros")
  /\ Len(args) = 2 /\ "new" \notin LineKinds(1) /\ "new" \in LineKinds(2)
  /\ Len(defn) > 0 /\ \A i \in 1..2 : DoneFor("pasteupTypes", i)
  /\ written = << >>

(***************************************************************************)
(* C19: after layout every class C has dottedName(C) = name(C) when it has *)
(* no base and dottedName(C) = dottedName(base(C)) + ">" + name(C)         *)
(* otherwise, the dotted name of the base being final when that of C is    *)
(* assembled, whatever the order in which the classes are declared.  The   *)
(* classes that layoutClass has laid out are those with a field map: all   *)
(* of them once layoutTypes has returned, and those reached before the     *)
(* throw when it has thrown.                                               *)
(***************************************************************************)
C19_DottedNames ==
  /\ Passed("layoutTypes") => \A c \in Classes : defn[c].hasMap
  /\ Ran("layoutTypes") =>
       \A c \in Classes : defn[c].hasMap => defn[c].className = DottedName(c)

\* C extends B extends A, each declared before its base: layoutClass(C) has
\* laid out A, then B, then C
C19_Witness ==
  /\ Ran("layoutTypes")
  /\ \E c \in Classes :
       /\ Len(Chain(c)) = 3
       /\ c < ParentOf(c) /\ ParentOf(c) < ParentOf(ParentOf(c))
       /\ defn[c].className = <<"A", ">", "B", ">", "C">>

(***************************************************************************)
(* A class and its base after layout.                                      *)
(***************************************************************************)
\* the fields that class c declares itself, with those of the structs that
\* its fields embed
OwnFields(c) ==
  {k \in DOMAIN defn[c].map :
     \E i \in 1..Len(defn[c].props) : defn[c].props[i].name = Head(k)}

\* class c keeps the fields of its base b where they are
KeepsFieldsOf(c, b) ==
  \A k \in DOMAIN defn[b].map :
    /\ k \in DOMAIN defn[c].map
    /\ defn[c].map[k].offset = defn[b].map[k].offset
    /\ defn[c].map[k].type = defn[b].map[k].type

(***************************************************************************)
(* C18: for every class C with base B, after layout every entry of the     *)
(* field map of B is in the field map of C under the same name, with the   *)
(* same offset and type; size(C) >= size(B) and align(C) >= align(B); and  *)
(* every field that C declares itself has an offset >= size(B).            *)
(***************************************************************************)
C18_ClassExtendsBaseLayout ==
  Passed("layoutTypes") =>
    \A c \in Classes :
      ParentOf(c) # 0 =>
        /\ KeepsFieldsOf(c, ParentOf(c))
        /\ defn[c].size >= defn[ParentOf(c)].size
        /\ defn[c].align >= defn[ParentOf(c)].align
        /\ \A k \in OwnFields(c) : defn[c].map[k].offset >= defn[ParentOf(c)].size

(***************************************************************************)
(* Text.  A text is a sequence of tokens: a token is one character of      *)
(* punctuation or white space, or a word of letters and digits that stands *)
(* for its characters.  Adjacent words read as one identifier.  Places in  *)
(* a text are counted from 0, as the source counts them.                   *)
(***************************************************************************)
\* the element of a set of one element.  An operator below names the result
\* of a call by binding it as the element of a one-element set, so that the
\* call is evaluated once: The({Body(r) : r \in {Call}})
The(S) == CHOOSE x \in S : TRUE

\* s.substring(from, to) and s.substring(from)
Substring(s, from, to) == SubSeq(s, from + 1, to)
SubstringFrom(s, from) == SubSeq(s, from + 1, Len(s))

\* \s
IsWs(c) == c = " "

RECURSIVE TrimLeft(_)
TrimLeft(s) == IF s # << >> /\ IsWs(Head(s)) THEN TrimLeft(Tail(s)) ELSE s

RECURSIVE TrimRight(_)
TrimRight(s) ==
  IF s # << >> /\ IsWs(s[Len(s)]) THEN TrimRight(SubSeq(s, 1, Len(s) - 1)) ELSE s

(***************************************************************************)
(* ParamParser.  The result of nextArg: t = "string" with the argument s,  *)
(* "null", "undefined" (the loop ran off the end of the input) or "throw"; *)
(* pos and done are the fields as the call leaves them, low the lowest     *)
(* value that depth took.                                                  *)
(***************************************************************************)
\* cleanupArg: the argument trimmed, or null
cleanupArg(s) ==
  LET t == TrimRight(TrimLeft(s))
  IN IF t = << >> THEN [t |-> "null", s |-> << >>] ELSE [t |-> "string", s |-> t]

ArgResult(c, pos, done, low) == [t |-> c.t, s |-> c.s, pos |-> pos, done |-> done, low |-> low]

Lower2(a, b) == IF a <= b THEN a ELSE b

\* the loop of nextArg
RECURSIVE ScanArg(_, _, _, _, _)
ScanArg(input, pos, start, depth, low) ==
  IF pos >= Len(input)
  THEN ArgResult([t |-> "undefined", s |-> << >>], pos, FALSE, low)
  ELSE
    LET c == input[pos + 1] IN
    CASE c = "," ->
           IF depth = 0
           THEN ArgResult(cleanupArg(Substring(input, start, pos)), pos + 1, FALSE, low)
           ELSE ScanArg(input, pos + 1, start, depth, low)
      [] c \in {"(", "{", "["} -> ScanArg(input, pos + 1, start, depth + 1, low)
      [] c \in {"}", "]"} ->
           ScanArg(input, pos + 1, start, depth - 1, Lower2(low, depth - 1))
      [] c = ")" ->
           IF depth = 0
           THEN ArgResult(cleanupArg(Substring(input, start, pos)), pos + 1, TRUE, low)
           ELSE ScanArg(input, pos + 1, start, depth - 1, Lower2(low, depth - 1))
      [] c \in {"'", "\""} ->
           ArgResult([t |-> "throw", s |-> << >>], pos + 1, FALSE, low)
      [] OTHER -> ScanArg(input, pos + 1, start, depth, low)

nextArg(input, q) ==
  IF q.done THEN ArgResult([t |-> "null", s |-> << >>], q.pos, TRUE, q.low)
  ELSE ScanArg(input, q.pos, q.pos, 0, q.low)

\* new ParamParser(input, pos)
ParamParser(pos) == [pos |-> pos, done |-> FALSE, as |-> << >>, low |-> 0]

\* allArgs: the parser as the loop leaves it, and whether nextArg threw
RECURSIVE AllArgsFrom(_, _)
AllArgsFrom(input, q) ==
  The({LET q1 == [pos |-> r.pos, done |-> r.done, as |-> q.as, low |-> r.low]
       IN IF r.t = "throw" THEN [pp |-> q1, thrown |-> TRUE]
          ELSE IF r.t = "string"
          THEN The({AllArgsFrom(input, q2) : q2 \in {[q1 EXCEPT !.as = Append(q.as, r.s)]}})
          ELSE [pp |-> q1, thrown |-> FALSE]
       : r \in {nextArg(input, q)}})

allArgs(input, pos) == AllArgsFrom(input, ParamParser(pos))

StringsError == "Internal error: Avoid strings in arguments for now"

\* one iteration of the loop of allArgs on the text that follows the
\* opening parenthesis of a macro
AllArgsIteration ==
  /\ pc = "allArgs" /\ thrown = ""
  /\ \E r \in {nextArg(text, pp)} :
     /\ pp' = [pos |-> r.pos, done |-> r.done, low |-> r.low,
               as |-> IF r.t = "string" THEN Append(pp.as, r.s) ELSE pp.as]
     /\ thrown' = IF r.t = "throw" THEN StringsError ELSE ""
     /\ pc' = IF r.t \in {"null", "undefined"} THEN "allArgsDone" ELSE pc
  /\ UNCHANGED <<args, fi, allDefs, defn, knownTypes, knownIds, allTypes, err, written,
                 hashVars, src, text, lastIndex, out1>>

\* the texts that follow an opening parenthesis
MaxArgLen == 4

ArgTokens == {"a", " ", ",", "(", ")", "[", "]", "\""}

ArgTexts ==
  SeqsUpTo(ArgTokens, MaxArgLen)
  \cup {<<"a", ",", "{", "a", ",", "a", "}", ")", "a">>,
        <<" ", "a", "(", "a", ")", " ", ",", "[", "]", ")">>,
        <<"a", ",", ",", "a", ")">>, <<"a", ",", "'", "a", "'", ")">>,
        <<"a", ",", "a", "}", ")">>}

InitParamParser ==
  /\ args = << >> /\ pc = "allArgs" /\ fi = 1 /\ allDefs = << >> /\ defn = << >>
  /\ knownTypes = << >> /\ knownIds = << >> /\ allTypes = << >>
  /\ err = NoError /\ written = << >>
  /\ hname = << >> /\ hpos = 0 /\ hid = 0
  /\ text \in ArgTexts
  /\ src = text /\ lastIndex = 0 /\ out1 = << >> /\ thrown = ""
  /\ pp = ParamParser(0)

SpecParamParser == InitParamParser /\ [][AllArgsIteration]_vars

(***************************************************************************)
(* The argument list as the text gives it: the text is read up to the      *)
(* closing parenthesis that matches the opening one of the macro, with the *)
(* brackets in between matched against a stack of openers.                 *)
(***************************************************************************)
OpenerOf(c) == CASE c = ")" -> "(" [] c = "]" -> "[" [] c = "}" -> "{"

\* the pieces between the top-level commas, and the place of the matching
\* closing parenthesis (from 1); ok: the text nests properly up to it.
\* stack: the openers not yet closed; cur: the piece read so far
RECURSIVE ReadList(_, _, _, _, _)
ReadList(t, i, stack, cur, pieces) ==
  IF i > Len(t) THEN [ok |-> FALSE, pieces |-> << >>, close |-> 0]
  ELSE
    LET c == t[i] IN
    IF c \in {"(", "[", "{"} THEN ReadList(t, i + 1, <<c>> \o stack, Append(cur, c), pieces)
    ELSE IF c \in {")", "]", "}"} THEN
      IF stack = << >>
      THEN [ok |-> c = ")", pieces |-> Append(pieces, cur), close |-> i]
      ELSE IF Head(stack) = OpenerOf(c)
      THEN ReadList(t, i + 1, Tail(stack), Append(cur, c), pieces)
      ELSE [ok |-> FALSE, pieces |-> << >>, close |-> 0]
    ELSE IF c = "," /\ stack = << >> THEN ReadList(t, i + 1, stack, << >>, Append(pieces, cur))
    ELSE ReadList(t, i + 1, stack, Append(cur, c), pieces)

Blank(piece) == \A i \in 1..Len(piece) : piece[i] = " "

\* a piece without the white space around it
Trimmed(piece) ==
  LET ix == {i \in 1..Len(piece) : piece[i] # " "}
  IN IF ix = {} THEN << >>
     ELSE SubSeq(piece, CHOOSE i \in ix : \A j \in ix : i <= j,
                        CHOOSE i \in ix : \A j \in ix : j <= i)

\* the arguments of the list: the pieces, trimmed; a list that is blank has
\* no arguments, and a blank piece after the last comma is no argument
TopLevelArgs(t) ==
  LET ps == ReadList(t, 1, << >>, << >>, << >>).pieces
      n  == IF Blank(ps[Len(ps)]) THEN Len(ps) - 1 ELSE Len(ps)
  IN [i \in 1..n |-> Trimmed(ps[i])]

NoQuotes(t) == \A i \in 1..Len(t) : t[i] \notin {"'", "\""}

NestsProperly(t) == ReadList(t, 1, << >>, << >>, << >>).ok

(***************************************************************************)
(* C20: for a text after the opening parenthesis in which (), {} and []    *)
(* nest properly and no quote occurs, allArgs returns exactly the          *)
(* top-level comma-separated arguments, trimmed, in order; where is then   *)
(* the place just past the matching closing parenthesis; and the depth     *)
(* never goes negative.                                                    *)
(***************************************************************************)
C20_AllArgsAreTopLevelArgs ==
  (pc = "allArgsDone" /\ NoQuotes(text) /\ NestsProperly(text)) =>
     /\ thrown = ""
     /\ pp.as = TopLevelArgs(text)
     /\ pp.pos = ReadList(text, 1, << >>, << >>, << >>).close
     /\ pp.low >= 0

(***************************************************************************)
(* The macro expander on text.  Words are the tokens that are not          *)
(* punctuation; a numeral is a word of digits.  A match of a regular       *)
(* expression is the record of exec: p the place where it starts, len its  *)
(* length (m[0].length), g1..g3 the groups.                                *)
(***************************************************************************)
Punct == {".", "_", "(", ")", ",", " ", "[", "]", "{", "}", "@", "\"", "'",
          "+", "*", ">", "=", ";"}

Numerals == {ToString(n) : n \in 0..64}

IsWord(c) == c # "" /\ c \notin Punct
IsLetterWord(c) == IsWord(c) /\ c \notin Numerals

\* the token at place i (from 1), "" past the end
At(t, i) == IF i \in 1..Len(t) THEN t[i] ELSE ""

\* [A-Za-z0-9]* from i: the place after the run
RECURSIVE WordRunEnd(_, _)
WordRunEnd(t, i) == IF IsWord(At(t, i)) THEN WordRunEnd(t, i + 1) ELSE i

\* [a-zA-Z0-9_]* from i
RECURSIVE PropRunEnd(_, _)
PropRunEnd(t, i) ==
  IF IsWord(At(t, i)) \/ At(t, i) = "_" THEN PropRunEnd(t, i + 1) ELSE i

\* \s* from i
RECURSIVE WsRunEnd(_, _)
WsRunEnd(t, i) == IF IsWs(At(t, i)) THEN WsRunEnd(t, i + 1) ELSE i

NoMatch == [found |-> FALSE, p |-> 0, len |-> 0, g1 |-> << >>, g2 |-> "", g3 |-> << >>]

\* acc_re at place i: g1 the class name, g2 "set" or "ref" or "", g3 the property
MatchAcc(t, i) ==
  LET j == WordRunEnd(t, i)
      k == PropRunEnd(t, j + 1)
      w == WsRunEnd(t, k)
      R == SubSeq(t, j + 1, k - 1)
      hasOp == Len(R) >= 3 /\ R[1] \in {"set", "ref"} /\ R[2] = "_"
  IN IF IsLetterWord(At(t, i)) /\ At(t, j) = "." /\ k > j + 1 /\ At(t, w) = "("
     THEN [found |-> TRUE, p |-> i - 1, len |-> w - i + 1, g1 |-> SubSeq(t, i, j - 1),
           g2 |-> IF hasOp THEN R[1] ELSE "",
           g3 |-> IF hasOp THEN SubSeq(R, 3, Len(R)) ELSE R]
     ELSE NoMatch

\* arr_re at place i: g1 the type name, g2 "get" or "set", g3 the field or << >>
MatchArr(t, i) ==
  LET j == WordRunEnd(t, i)
      k == PropRunEnd(t, j + 5)
      hasField == At(t, j + 4) = "_" /\ k > j + 5
      n == IF hasField THEN k ELSE j + 4
      w == WsRunEnd(t, n)
  IN IF /\ IsLetterWord(At(t, i)) /\ At(t, j) = "."
        /\ At(t, j + 1) = "array" /\ At(t, j + 2) = "_" /\ At(t, j + 3) \in {"get", "set"}
        /\ At(t, w) = "("
     THEN [found |-> TRUE, p |-> i - 1, len |-> w - i + 1, g1 |-> SubSeq(t, i, j - 1),
           g2 |-> At(t, j + 3),
           g3 |-> IF hasField THEN SubSeq(t, j + 5, k - 1) ELSE << >>]
     ELSE NoMatch

\* new_re at place i: g2 = "array" with g1 the type of the elements, or
\* g2 = "class" with g1 the type
MatchNew(t, i) ==
  LET a == WsRunEnd(t, i + 2)
      b == WsRunEnd(t, a + 1)
      c == WsRunEnd(t, b + 1)
      d == WordRunEnd(t, c)
      e == WsRunEnd(t, d)
      f == WordRunEnd(t, a)
  IN IF ~(At(t, i) = "@" /\ At(t, i + 1) = "new" /\ a > i + 2) THEN NoMatch
     ELSE IF /\ At(t, a) = "array" /\ At(t, b) = "(" /\ IsLetterWord(At(t, c))
             /\ At(t, e) = ","
     THEN [found |-> TRUE, p |-> i - 1, len |-> e - i + 1, g1 |-> SubSeq(t, c, d - 1),
           g2 |-> "array", g3 |-> << >>]
     ELSE IF IsLetterWord(At(t, a))
     THEN [found |-> TRUE, p |-> i - 1, len |-> f - i, g1 |-> SubSeq(t, a, f - 1),
           g2 |-> "class", g3 |-> << >>]
     ELSE NoMatch

MatchAt(re, t, i) ==
  CASE re = "acc_re" -> MatchAcc(t, i)
    [] re = "arr_re" -> MatchArr(t, i)
    [] re = "new_re" -> MatchNew(t, i)

\* re.exec(text) with re.lastIndex = lastIdx: the leftmost match
Exec(re, t, lastIdx) ==
  LET starts == {i \in (lastIdx + 1)..Len(t) : MatchAt(re, t, i).found}
  IN IF starts = {} THEN NoMatch
     ELSE MatchAt(re, t, CHOOSE i \in starts : \A j \in starts : i <= j)

\* the names that every object has from Object.prototype: obj[name] is a
\* function for them, though the object has no such property of its own
ProtoNames == {"constructor", "toString", "valueOf", "hasOwnProperty"}

\* the name that a run of words spells: a run of one word is that word, a
\* longer run spells a name that is in no table
Spelled(run) == IF Len(run) = 1 THEN run[1] ELSE ""

\* the key of a property name in a field map: the words that "_" joins
FieldKey(R) ==
  IF /\ Len(R) % 2 = 1
     /\ \A i \in 1..Len(R) : IF i % 2 = 1 THEN IsWord(R[i]) ELSE R[i] = "_"
  THEN [i \in 1..((Len(R) + 1) \div 2) |-> R[2 * i - 1]]
  ELSE << >>

Num(n) == <<ToString(n)>>
Undefined == <<"undefined">>

\* as[i], from 0
Arg(as, i) == IF i < Len(as) THEN as[i + 1] ELSE Undefined

endstrip(x) ==
  IF x # << >> /\ \A i \in 1..Len(x) : IsWord(x[i]) THEN x ELSE <<"(">> \o x \o <<")">>

RECURSIVE Log2Loop(_, _)
Log2Loop(x, i) == IF x > 1 THEN Log2Loop(x \div 2, i + 1) ELSE i

log2Linear(x) == x

\* log2: the test of i before its declaration compares undefined and is false
log2(x) == Log2Loop(x, 0)

UnknownType == "Internal: Unknown type in sizeofType"

\* findType: a reference to the type, or null after a throw
findType(kt, name) ==
  IF name \in PrimNames THEN PrimRef(name)
  ELSE IF Has(kt, name) THEN UserRef(kt[name])
  ELSE NullRef

SizeOf(h, ref) == IF ref.tag = "prim" THEN builtinTypes[ref.name].size ELSE h[ref.idx].size
AlignOf(h, ref) == IF ref.tag = "prim" THEN builtinTypes[ref.name].size ELSE h[ref.idx].align

\* the result of a macro: [newText, newStart], or a throw
Macro(newText, newStart) == [text |-> newText, start |-> newStart, thrown |-> ""]
Throw(s, what) == [text |-> s, start |-> 0, thrown |-> what]
\* left + expr + s.substring(where), left.length + expr.length
Replaced(left, expr, s, where) == Macro(left \o expr \o SubstringFrom(s, where), Len(left) + Len(expr))

TypeError == "TypeError"

RECURSIVE expandMacrosInText(_, _, _)

\* r: expandMacrosIn(endstrip(rhs)) where the operation is set_
loadFromRefText(h, ref, type, s, left, operation, where, r, nomatch) ==
  IF type.tag = "null" THEN Throw(s, TypeError)
  ELSE
    LET prim == type.tag = "prim"
        cls  == type.tag = "user" /\ h[type.idx].kind = "class"
        mem  == IF prim THEN <<"_", "mem", "_", type.name>> ELSE <<"_", "mem", "_", "int32">>
        size == IF prim THEN builtinTypes[type.name].size ELSE IF cls THEN 4 ELSE 0
    IN IF size > 0 THEN
         IF operation = "get_"
         THEN Replaced(left, <<"(">> \o mem \o <<"[">> \o ref \o <<">", ">">> \o Num(log2(size))
                             \o <<"]", ")">>, s, where)
         ELSE IF operation = "set_"
         THEN IF r.thrown # "" THEN Throw(s, r.thrown)
              ELSE Replaced(left, <<"(">> \o mem \o <<"[">> \o ref \o <<">", ">">>
                                  \o Num(log2(size)) \o <<"]", " ", "=", " ">> \o r.text
                                  \o <<")">>, s, where)
         ELSE nomatch
       ELSE
         LET t == h[type.idx] IN
         IF operation = "get_"
         THEN IF ~t.hasGetMethod THEN nomatch
              ELSE Replaced(left, <<"(", t.name, ".", "_", "get", "_", "impl", "(">> \o ref
                                  \o <<")", ")">>, s, where)
         ELSE IF operation = "set_"
         THEN IF ~t.hasSetMethod THEN nomatch
              ELSE IF r.thrown # "" THEN Throw(s, r.thrown)
              ELSE Replaced(left, <<"(", t.name, ".", "_", "set", "_", "impl", "(">> \o ref
                                  \o <<",">> \o r.text \o <<")", ")">>, s, where)
         ELSE nomatch

\* this.map[prop]: the entry, an inherited function of the map object
\* (offset and type undefined), or nothing
NoField == [found |-> FALSE, offset |-> Undefined, type |-> NullRef]
FieldOf(map, R) ==
  IF Has(map, FieldKey(R))
  THEN [found |-> TRUE, offset |-> Num(map[FieldKey(R)].offset), type |-> map[FieldKey(R)].type]
  ELSE IF Spelled(R) \in ProtoNames THEN [NoField EXCEPT !.found = TRUE]
  ELSE NoField

\* the arity test of accMacro: get_ takes one argument, set_ two
AccArity(operation, n) ==
  CASE operation = "get_" -> n = 1
    [] operation = "set_" -> n = 2
    [] OTHER -> TRUE

\* expandMacrosIn(endstrip(rhs)), which loadFromRef computes for set_ only
Rhs(h, kt, operation, rhs) ==
  IF operation = "set_" THEN expandMacrosInText(h, kt, endstrip(rhs))
  ELSE [text |-> << >>, thrown |-> ""]

accMacroText(h, kt, s, p, m) ==
  LET nomatch   == Macro(s, p + m.len)
      left      == Substring(s, 0, p)
      operation == IF m.g2 = "" THEN "get_" ELSE m.g2 \o "_"
      className == Spelled(m.g1)
  IN IF className \in ProtoNames /\ ~Has(kt, className) THEN Throw(s, TypeError)
     ELSE IF ~Has(kt, className) THEN nomatch
     ELSE
       LET fld == FieldOf(h[kt[className]].map, m.g3) IN
       IF ~fld.found THEN nomatch
       ELSE The({
         LET as == a.pp.as IN
         IF a.thrown THEN Throw(s, StringsError)
         ELSE IF ~AccArity(operation, Len(as)) THEN nomatch
         ELSE The({
           LET ref == <<"(">> \o e.text \o <<"+">> \o fld.offset \o <<")">> IN
           IF e.thrown # "" THEN Throw(s, e.thrown)
           ELSE IF operation = "ref_" THEN Replaced(left, ref, s, a.pp.pos)
           ELSE loadFromRefText(h, ref, fld.type, s, left, operation, a.pp.pos,
                                Rhs(h, kt, operation, Arg(as, 1)), nomatch)
           : e \in {expandMacrosInText(h, kt, endstrip(Arg(as, 0)))}})
         : a \in {allArgs(s, p + m.len)}})

\* the arity test of arrMacro: get takes two arguments, set three
ArrArity(operation, n) == IF operation = "get" THEN n = 2 ELSE n = 3

arrMacro(h, kt, s, p, m) ==
  LET nomatch == Macro(s, p + m.len)
      type    == findType(kt, Spelled(m.g1))
      field   == m.g3 # << >>
  IN IF type.tag = "null" THEN Throw(s, UnknownType)
     ELSE
       The({
         LET as == a.pp.as IN
         IF a.thrown THEN Throw(s, StringsError)
         ELSE IF ~ArrArity(m.g2, Len(as)) THEN nomatch
         ELSE IF field /\ (type.tag = "prim" \/ h[type.idx].kind = "class") THEN nomatch
         ELSE The({
           LET ref == <<"(">> \o e[1].text \o <<"+">> \o Num(SizeOf(h, type)) \o <<"*">>
                      \o e[2].text \o <<")">>
               fld == FieldOf(h[type.idx].map, m.g3)
           IN IF e[1].thrown # "" THEN Throw(s, e[1].thrown)
              ELSE IF e[2].thrown # "" THEN Throw(s, e[2].thrown)
              ELSE IF ~field
              THEN loadFromRefText(h, ref, type, s, Substring(s, 0, p), m.g2 \o "_",
                                   a.pp.pos, Rhs(h, kt, m.g2 \o "_", Arg(as, 2)), nomatch)
              ELSE IF ~fld.found THEN nomatch
              ELSE loadFromRefText(h, <<"(">> \o ref \o <<"+">> \o fld.offset \o <<")">>,
                                   fld.type, s, Substring(s, 0, p), m.g2 \o "_",
                                   a.pp.pos, Rhs(h, kt, m.g2 \o "_", Arg(as, 2)), nomatch)
           : e \in {<<expandMacrosInText(h, kt, endstrip(Arg(as, 0))),
                      expandMacrosInText(h, kt, endstrip(Arg(as, 1)))>>}})
         : a \in {allArgs(s, p + m.len)}})

UnknownNew == "Unknown type argument to @new"
WrongNew == "Wrong number of arguments to @new array"

\* knownTypes[classType] of newMacro: a type of the table, or an inherited
\* function of the table object, whose size and align are undefined
NewLookup(kt, name) ==
  IF Has(kt, name) THEN "type" ELSE IF name \in ProtoNames THEN "proto" ELSE "none"

newMacroText(h, kt, s, p, m) ==
  LET left == Substring(s, 0, p)
      name == Spelled(m.g1)
  IN IF m.g2 = "class" THEN
       LET t    == NewLookup(kt, name)
           size == IF t = "type" THEN Num(h[kt[name]].size) ELSE Undefined
           al   == IF t = "type" THEN Num(h[kt[name]].align) ELSE Undefined
       IN IF t = "none" THEN Throw(s, UnknownNew)
          ELSE Replaced(left, <<"(">> \o m.g1 \o <<".", "initInstance", "(", "Parlang", ".",
                                  "alloc", "(">> \o size \o <<",">> \o al \o <<")", ")", ")">>,
                        s, p + m.len)
     ELSE
       The({
         LET as == a.pp.as
             t  == findType(kt, name)
         IN IF a.thrown THEN Throw(s, StringsError)
            ELSE IF Len(as) # 1 THEN Throw(s, WrongNew)
            ELSE IF t.tag = "null" THEN Throw(s, UnknownType)
            ELSE The({
              IF e.thrown # "" THEN Throw(s, e.thrown)
              ELSE Replaced(left, <<"(", "Parlang", ".", "alloc", "(">> \o Num(SizeOf(h, t))
                                  \o <<" ", "*", " ">> \o e.text \o <<",", " ">>
                                  \o Num(AlignOf(h, t)) \o <<")", ")">>, s, a.pp.pos)
              : e \in {expandMacrosInText(h, kt, endstrip(Arg(as, 0)))}})
         : a \in {allArgs(s, p + m.len)}})

\* macro(text, re.lastIndex - m[0].length, m)
CallMacro(re, h, kt, t, m) ==
  CASE re = "acc_re" -> accMacroText(h, kt, t, m.p, m)
    [] re = "arr_re" -> arrMacro(h, kt, t, m.p, m)
    [] re = "new_re" -> newMacroText(h, kt, t, m.p, m)

\* the loop of myExec from re.lastIndex = lastIdx
RECURSIVE MyExecLoop(_, _, _, _, _)
MyExecLoop(re, h, kt, t, lastIdx) ==
  The({IF ~m.found THEN [text |-> t, thrown |-> ""]
       ELSE The({IF r.thrown # "" THEN [text |-> t, thrown |-> r.thrown]
                 ELSE MyExecLoop(re, h, kt, r.text, r.start)
                 : r \in {CallMacro(re, h, kt, t, m)}})
       : m \in {Exec(re, t, lastIdx)}})

\* myExec on the result x of the inner call
myExec(re, h, kt, x) == IF x.thrown # "" THEN x ELSE MyExecLoop(re, h, kt, x.text, 0)

expandMacrosInText(h, kt, t) ==
  The({The({The({myExec("new_re", h, kt, arr)
                 : arr \in {myExec("arr_re", h, kt, acc)}})
            : acc \in {myExec("acc_re", h, kt, x)}})
       : x \in {[text |-> t, thrown |-> ""]}})

(***************************************************************************)
(* expandMacrosIn on one line of text, after the passes before it have run *)
(* on the types of MacroProgram.  pc then names the regular expression     *)
(* whose myExec loop is running.                                           *)
(***************************************************************************)
\* one iteration of the loop of the outermost myExec for re
MyExecIteration(re, next) ==
  /\ pc = re /\ thrown = ""
  /\ \E m \in {Exec(re, text, lastIndex)} :
       IF ~m.found
       THEN pc' = next /\ lastIndex' = 0 /\ UNCHANGED <<text, thrown>>
       ELSE \E r \in {CallMacro(re, defn, knownTypes, text, m)} :
              IF r.thrown # ""
              THEN thrown' = r.thrown /\ UNCHANGED <<pc, text, lastIndex>>
              ELSE text' = r.text /\ lastIndex' = r.start /\ UNCHANGED <<pc, thrown>>
  /\ UNCHANGED <<args, fi, allDefs, defn, knownTypes, knownIds, allTypes, err, written,
                 hashVars, src, out1, pp>>

AccIteration == MyExecIteration("acc_re", "arr_re")
ArrIteration == MyExecIteration("arr_re", "new_re")
NewIteration == MyExecIteration("new_re", "expanded")

\* expandMacrosIn on the text that expandMacrosIn returned
ExpandAgain ==
  /\ pc = "expanded" /\ thrown = ""
  /\ \E r \in {expandMacrosInText(defn, knownTypes, text)} :
       /\ out1' = text
       /\ text' = r.text
       /\ thrown' = r.thrown
       /\ pc' = "expandedAgain"
  /\ UNCHANGED <<args, fi, allDefs, defn, knownTypes, knownIds, allTypes, err, written,
                 hashVars, src, lastIndex, pp>>

\* the types of the examples: Point, Pair and PairBox
Point ==
  DefD("class", "Point", "",
       <<PropD("x", "", FALSE, "int32"), PropD("y", "", FALSE, "int32")>>, << >>)

\* a class with a field that points to an object of a class
Segment ==
  DefD("class", "Segment", "",
       <<PropD("a", "", FALSE, "Point"), PropD("len", "", FALSE, "float64")>>, << >>)

\* a class whose name and field are one letter each
Tiny == DefD("class", "T", "", <<PropD("x", "", FALSE, "int32")>>, << >>)

MacroProgram == OneFile(<<Point, Pair, PairBox, Segment, Tiny>>)

\* the greatest number of arguments of the calls in the texts
MaxArgs == 3

Tok(s) == <<s>>
Joined(a, sep, b) == a \o sep \o b

\* the arguments: a name, a number, a call of an accessor, a string
ArgPool ==
  {<<"p">>, <<"10">>, <<"Point", ".", "y", "(", "q", ")">>, <<"\"", "s", "\"">>}

RECURSIVE CommaList(_)
CommaList(as) ==
  IF Len(as) = 0 THEN << >>
  ELSE IF Len(as) = 1 THEN as[1]
  ELSE as[1] \o <<",", " ">> \o CommaList(Tail(as))

ArgLists == {CommaList(as) : as \in SeqsUpTo(ArgPool, MaxArgs)}

Call(type, member, as) == <<type, ".">> \o member \o <<"(">> \o as \o <<")">>

AccMembers ==
  {<<"x">>, <<"set", "_", "x">>, <<"ref", "_", "x">>, <<"ref", "_", "y">>, <<"p">>,
   <<"set", "_", "p">>, <<"p", "_", "x">>, <<"a">>, <<"set", "_", "a">>, <<"z">>,
   <<"toString">>}

AccCalls ==
  {Call(t, m, as) : t \in {"Point", "PairBox", "Segment", "q", "constructor"},
                    m \in AccMembers,
                    as \in ArgLists}

ArrMembers ==
  {<<"array", "_", "get">>, <<"array", "_", "set">>, <<"array", "_", "get", "_", "x">>}

ArrCalls ==
  {Call(t, m, as) : t \in {"int32", "Pair", "Point", "q"}, m \in ArrMembers, as \in ArgLists}

NewUses ==
  {<<"@", "new", " ", t>> : t \in {"Point", "Pair", "int32", "Missing", "constructor"}}
  \cup {<<"@", "new", " ", "array", "(", t, ",", " ">> \o n \o <<")">> :
          t \in {"int32", "Point", "Missing"}, n \in ArgPool \cup {<<"7">>}}

PlainTexts ==
  {<<"f", "(", "a", ",", " ", "b", ")">>, <<"a", " ", "=", " ", "b", ";">>,
   <<"Point", ".", "x">>, <<"q", ".", "f", "(", "a", ")", ";">>, << >>}

\* the accessors of Tiny, with one argument and with none
ShortCalls ==
  {Call("T", m, as) : m \in {<<"x">>, <<"ref", "_", "x">>}, as \in {<< >>, <<"p">>}}

\* a line: a call or a use of @new, alone, after "var a = ", or after a
\* plain text and a space
MacroTexts ==
  LET one == AccCalls \cup ArrCalls \cup NewUses \cup PlainTexts \cup ShortCalls
  IN one
     \cup {<<"var", " ", "a", " ", "=", " ">> \o u \o <<";">> : u \in NewUses}
     \cup {Joined(a, <<" ">>, u) : a \in PlainTexts, u \in NewUses}
     \cup {Joined(<<"Point", ".", "x", "(", "p", ")">>, <<" ", "+", " ">>, c) :
             c \in {<<"Point", ".", "y", "(", "p", ")">>,
                    <<"Point", ".", "ref", "_", "y", "(", "p", ")">>}}

\* expandGlobalAccessorsAndMacros comes to a line of a file: lines[j]
TakeLine ==
  /\ pc = "expandGlobalAccessorsAndMacros" /\ Alive
  /\ text' \in MacroTexts
  /\ src' = text'
  /\ pc' = "acc_re"
  /\ UNCHANGED <<args, fi, allDefs, defn, knownTypes, knownIds, allTypes, err, written,
                 hashVars, lastIndex, out1, thrown, pp>>

NextMacros ==
  \/ Collect
  \/ BuildTypeMap
  \/ ResolveTypeRefs
  \/ CheckRecursion
  \/ LayoutTypes
  \/ CreateVirtuals
  \/ ExpandSelfAccessors
  \/ PasteupTypes
  \/ TakeLine
  \/ AccIteration
  \/ ArrIteration
  \/ NewIteration
  \/ ExpandAgain

InitMacros == InitWith(MacroProgram)

SpecMacros == InitMacros /\ [][NextMacros]_vars

(***************************************************************************)
(* The call that the loop of myExec finds next, as the claims about the    *)
(* accessor and array macros read it.                                      *)
(***************************************************************************)
\* the match that the next iteration for re works on
NextMatch(re) == Exec(re, text, lastIndex)

\* the arguments of the call matched by m, and whether reading them failed
CallArgs(m) == allArgs(text, m.p + m.len)

\* the type and the field of the call are known
OnKnownField(re, m) ==
  LET name == Spelled(m.g1) IN
  IF re = "acc_re"
  THEN Has(knownTypes, name) /\ Has(defn[knownTypes[name]].map, FieldKey(m.g3))
  ELSE /\ name \in PrimNames \/ Has(knownTypes, name)
       /\ m.g3 # << >> => (Has(knownTypes, name)
                            /\ Has(defn[knownTypes[name]].map, FieldKey(m.g3)))

\* the number of arguments that the operation takes
Arity(re, m) ==
  IF re = "acc_re" THEN (IF m.g2 = "set" THEN 2 ELSE 1)
  ELSE (IF m.g2 = "set" THEN 3 ELSE 2)

ArityMismatch(re) ==
  LET m == NextMatch(re) IN
  /\ pc = re /\ thrown = "" /\ m.found /\ OnKnownField(re, m)
  /\ ~CallArgs(m).thrown
  /\ Len(CallArgs(m).pp.as) # Arity(re, m)

(***************************************************************************)
(* C11: when an accessor macro (get: 1 argument, set: 2, ref: 1) or an     *)
(* array macro (get: 2, set: 3) on a known type and field is called with   *)
(* another number of arguments, the iteration leaves the text unchanged    *)
(* and the scan resumes just after the matched prefix, which ends with the *)
(* opening parenthesis.                                                    *)
(***************************************************************************)
C11_ArityMismatchLeavesText ==
  [][\A re \in {"acc_re", "arr_re"} :
       ArityMismatch(re) =>
         /\ text' = text
         /\ thrown' = ""
         /\ lastIndex' = NextMatch(re).p + NextMatch(re).len]_vars

(***************************************************************************)
(* The expansions of the accessors as the specification writes them.       *)
(***************************************************************************)
\* the name of the field with key k, as the accessor spells it
RECURSIVE Underscored(_)
Underscored(k) ==
  IF Len(k) = 1 THEN k ELSE <<Head(k), "_">> \o Underscored(Tail(k))

\* log2 of a size that is a power of two
Log2Of(s) == CHOOSE n \in 0..6 : 2 ^ n = s

\* the fields of type T that hold a primitive value or a pointer to an object
ScalarFields(T) ==
  {k \in DOMAIN defn[T].map :
     \/ defn[T].map[k].type.tag = "prim"
     \/ defn[T].map[k].type.tag = "user" /\ defn[defn[T].map[k].type.idx].kind = "class"}

ViewOf(T, k) ==
  LET ty == defn[T].map[k].type
  IN <<"_", "mem", "_", IF ty.tag = "prim" THEN ty.name ELSE "int32">>

ElementSize(T, k) ==
  LET ty == defn[T].map[k].type
  IN IF ty.tag = "prim" THEN builtinTypes[ty.name].size ELSE 4

RefText(T, k, p) == <<"(", p, "+", ToString(defn[T].map[k].offset), ")">>

ElementText(T, k, p) ==
  ViewOf(T, k) \o <<"[">> \o RefText(T, k, p)
  \o <<">", ">", ToString(Log2Of(ElementSize(T, k))), "]">>

GetText(T, k, p) == <<"(">> \o ElementText(T, k, p) \o <<")">>
SetText(T, k, p, v) == <<"(">> \o ElementText(T, k, p) \o <<" ", "=", " ", v, ")">>

\* the text that expandMacrosIn returned: text when it has returned, out1
\* after the second run
Output == IF pc = "expandedAgain" THEN out1 ELSE text

Returned == pc \in {"expanded", "expandedAgain"}

\* the simple operands: a name, a number
Operands == {"p", "10"}

AccessorsAsSpecified ==
  \A T \in Types : \A k \in ScalarFields(T) : \A p \in Operands : \A v \in Operands :
    /\ src = Call(defn[T].name, Underscored(k), <<p>>) => Output = GetText(T, k, p)
    /\ src = Call(defn[T].name, <<"set", "_">> \o Underscored(k), <<p, ",", " ", v>>)
         => Output = SetText(T, k, p, v)
    /\ src = Call(defn[T].name, <<"ref", "_">> \o Underscored(k), <<p>>)
         => Output = RefText(T, k, p)

\* src is a get, set or ref of such a field on simple operands
SpecifiedAccess ==
  \E T \in Types : \E k \in ScalarFields(T) : \E p \in Operands : \E v \in Operands :
    src \in {Call(defn[T].name, Underscored(k), <<p>>),
             Call(defn[T].name, <<"set", "_">> \o Underscored(k), <<p, ",", " ", v>>),
             Call(defn[T].name, <<"ref", "_">> \o Underscored(k), <<p>>)}

PointExamples ==
  /\ src = <<"Point", ".", "x", "(", "p", ")">>
       => Output = <<"(", "_", "mem", "_", "int32", "[", "(", "p", "+", "4", ")", ">", ">",
                     "2", "]", ")">>
  /\ src = <<"Point", ".", "set", "_", "x", "(", "p", ",", " ", "10", ")">>
       => Output = <<"(", "_", "mem", "_", "int32", "[", "(", "p", "+", "4", ")", ">", ">",
                     "2", "]", " ", "=", " ", "10", ")">>
  /\ src = <<"Point", ".", "ref", "_", "x", "(", "p", ")">>
       => Output = <<"(", "p", "+", "4", ")">>
  /\ src = <<"Point", ".", "ref", "_", "y", "(", "p", ")">>
       => Output = <<"(", "p", "+", "8", ")">>

(***************************************************************************)
(* C12: for a known type T with a field f that holds a primitive value or  *)
(* a pointer to an object, at offset k with elements of size s, get of f   *)
(* on p expands to (view[(p+k)>>log2(s)]), set of f on p to v to           *)
(* (view[(p+k)>>log2(s)] = v) and ref of f on p to (p+k), with view the    *)
(* _mem_ array of the primitive type, _mem_int32 for a pointer; for        *)
(* Point { x: int32; y: int32 } these are (_mem_int32[(p+4)>>2]),          *)
(* (_mem_int32[(p+4)>>2] = 10) and (p+4), and the ref of y is 4 further.   *)
(***************************************************************************)
C12_AccessorExpansions ==
  /\ SpecifiedAccess => thrown = ""
  /\ Returned => (AccessorsAsSpecified /\ PointExamples)

C12_Witness ==
  /\ pc = "expanded"
  /\ src = <<"Segment", ".", "set", "_", "a", "(", "p", ",", " ", "10", ")">>
  /\ text = <<"(", "_", "mem", "_", "int32", "[", "(", "p", "+", "4", ")", ">", ">",
              "2", "]", " ", "=", " ", "10", ")">>

(***************************************************************************)
(* The expansions of @new as the specification writes them.                *)
(***************************************************************************)
NewText(T) ==
  <<"(", defn[T].name, ".", "initInstance", "(", "Parlang", ".", "alloc", "(",
    ToString(defn[T].size), ",", ToString(defn[T].align), ")", ")", ")">>

NewArrayText(size, n, align) ==
  <<"(", "Parlang", ".", "alloc", "(", ToString(size), " ", "*", " ">> \o n
  \o <<",", " ", ToString(align), ")", ")">>

NewArrayUse(name, n) == <<"@", "new", " ", "array", "(", name, ",", " ">> \o n \o <<")">>

\* the lengths of the arrays: simple operands, and a get of Point.y, whose
\* expansion may be parenthesized
Lengths ==
  {[n |-> <<w>>, expanded |-> {<<w>>}] : w \in {"p", "10", "7"}}
  \cup {[n |-> <<"Point", ".", "y", "(", "q", ")">>,
         expanded |-> {GetText(knownTypes["Point"], <<"y">>, "q"),
                       <<"(">> \o GetText(knownTypes["Point"], <<"y">>, "q") \o <<")">>}]}

NewAsSpecified ==
  /\ \A T \in Types : src = <<"@", "new", " ", defn[T].name>> => Output = NewText(T)
  /\ \A T \in Types : \A l \in Lengths :
       src = NewArrayUse(defn[T].name, l.n)
         => \E n \in l.expanded : Output = NewArrayText(defn[T].size, n, defn[T].align)
  /\ \A P \in PrimNames : \A l \in Lengths :
       src = NewArrayUse(P, l.n)
         => \E n \in l.expanded :
              Output = NewArrayText(builtinTypes[P].size, n, builtinTypes[P].size)

NewExamples ==
  /\ src = <<"@", "new", " ", "Point">>
       => Output = <<"(", "Point", ".", "initInstance", "(", "Parlang", ".", "alloc", "(",
                     "12", ",", "4", ")", ")", ")">>
  /\ src = NewArrayUse("int32", <<"7">>)
       => Output = <<"(", "Parlang", ".", "alloc", "(", "4", " ", "*", " ", "7", ",", " ",
                     "4", ")", ")">>

\* the names that are names of no type
NoTypeNames == {"Missing", "constructor"}

\* src is a use of @new on a name that is the name of no type
NewOfUnknown ==
  \E name \in NoTypeNames :
    \/ src = <<"@", "new", " ", name>>
    \/ \E l \in Lengths : src = NewArrayUse(name, l.n)

(***************************************************************************)
(* C13: "@new T" for a known type T becomes                                *)
(* (T.initInstance(Parlang.alloc(size(T),align(T)))) and                   *)
(* "@new array(T, n)" becomes (Parlang.alloc(size(T) * n, align(T))) with  *)
(* n macro-expanded, with the sizes and alignments that layout computed;   *)
(* on a name that is the name of no type the expander throws and returns   *)
(* no text.  "@new Point" gives (Point.initInstance(Parlang.alloc(12,4)))  *)
(* and an array of 7 int32 gives (Parlang.alloc(4 * 7, 4)).                *)
(***************************************************************************)
C13_NewExpansions ==
  /\ Returned => (NewAsSpecified /\ NewExamples)
  /\ Returned => ~NewOfUnknown

(***************************************************************************)
(* C14: macro expansion is idempotent on its own output: when              *)
(* expandMacrosIn has returned a text, expandMacrosIn on that text returns *)
(* the same text; a second run rewrites nothing.                           *)
(***************************************************************************)
C14_ExpansionIdempotent ==
  pc = "expandedAgain" => (thrown = "" /\ text = out1)

(***************************************************************************)
(* A line of a file without annotations: it holds no "@", and names no     *)
(* type of the compilation, so that no accessor, array or @new macro of    *)
(* the types that other files define is used in it.                        *)
(***************************************************************************)
Unannotated(t) ==
  \A i \in 1..Len(t) : t[i] # "@" /\ t[i] \notin PrimNames /\ ~Has(knownTypes, t[i])

(***************************************************************************)
(* C15: a file that contains no annotations is emitted unchanged, whatever *)
(* other files are in the compilation: on each of its lines the macro      *)
(* expander does not throw, and returns the line as it was.                *)
(***************************************************************************)
C15_UnannotatedUnchanged ==
  Unannotated(src) => (thrown = "" /\ (Returned => Output = src))

\* src is a call of an accessor or array macro of a type, with a string
\* literal among its arguments
CallWithString ==
  /\ \E i \in 1..Len(src) : src[i] = "\""
  /\ \E re \in {"acc_re", "arr_re"} :
       LET m == Exec(re, src, 0)
       IN m.found /\ m.p = 0 /\ (Spelled(m.g1) \in PrimNames \/ Has(knownTypes, Spelled(m.g1)))

(***************************************************************************)
(* C16: a string literal in the argument list of an accessor or array      *)
(* macro call does not stop the translation: the macro expander raises no  *)
(* error on such a line.                                                   *)
(***************************************************************************)
C16_StringArgumentsDoNotThrow ==
  CallWithString => thrown = ""

(***************************************************************************)
(* expandSelfAccessors on the text of one line of a method body.           *)
(***************************************************************************)
SelfOps == {"set", "add", "sub", "or", "compareExchange", "loadWhenEqual",
            "loadWhenNotEqual", "expectUpdate"}

\* self_accessor_re at place i
MatchSelfAccessor(t, i) ==
  LET k == PropRunEnd(t, i + 4)
      w == WsRunEnd(t, k)
  IN IF /\ At(t, i) = "SELF" /\ At(t, i + 1) = "_" /\ At(t, i + 2) \in SelfOps
        /\ At(t, i + 3) = "_" /\ k > i + 4 /\ At(t, w) = "("
     THEN [NoMatch EXCEPT !.found = TRUE, !.p = i - 1, !.len = w - i + 1]
     ELSE NoMatch

\* self_getter_re at place i
MatchSelfGetter(t, i) ==
  LET k == PropRunEnd(t, i + 2)
  IN IF At(t, i) = "SELF" /\ At(t, i + 1) = "_" /\ k > i + 2
     THEN [NoMatch EXCEPT !.found = TRUE, !.p = i - 1, !.len = k - i]
     ELSE NoMatch

MatchSelf(re, t, i) ==
  IF re = "self_accessor_re" THEN MatchSelfAccessor(t, i) ELSE MatchSelfGetter(t, i)

\* the replacement functions: m.substring(5) is the match after "SELF_"
SelfReplacement(re, tname, m) ==
  <<tname, ".">> \o SubstringFrom(m, 2)
  \o (IF re = "self_accessor_re" THEN <<"self", ",", " ">> ELSE <<"(", "self", ")">>)

\* body[k].replace(re, ...) from place i: every match, from left to right
RECURSIVE ReplaceSelf(_, _, _, _)
ReplaceSelf(re, tname, t, i) ==
  IF i > Len(t) THEN << >>
  ELSE LET m == MatchSelf(re, t, i) IN
       IF m.found
       THEN SelfReplacement(re, tname, SubSeq(t, i, i + m.len - 1))
            \o ReplaceSelf(re, tname, t, i + m.len)
       ELSE <<t[i]>> \o ReplaceSelf(re, tname, t, i + 1)

\* the two statements of the loop body of expandSelfAccessors, for the
\* type allTypes[fi]
ReplaceSelfStep(re, next) ==
  /\ pc = re
  /\ text' = ReplaceSelf(re, defn[allTypes[fi]].name, text, 1)
  /\ pc' = next
  /\ UNCHANGED <<args, fi, allDefs, defn, knownTypes, knownIds, allTypes, err, written,
                 hashVars, src, lastIndex, out1, thrown, pp>>

ReplaceSelfAccessors == ReplaceSelfStep("self_accessor_re", "self_getter_re")
ReplaceSelfGetters == ReplaceSelfStep("self_getter_re", "selfExpanded")

\* lines of method bodies: a use of SELF or of a name that ends in SELF,
\* within a statement
SelfUses ==
  {<<"SELF", "_", "x">>, <<"SELF", "_", "ref", "_", "x">>, <<"SELF", "_", "p", "_", "x">>,
   <<"SELF", "_", "set", "_", "x", "(", "v", ")">>,
   <<"SELF", "_", "add", "_", "x", " ", "(", "1", ")">>,
   <<"SELF", "_", "set", "_", "x">>, <<"SELF", ".", "x">>, <<"SELF">>, <<"self">>,
   <<"SELF", "_", "set", "_", "SELF", "_", "x", "(", "v", ")">>}

SelfHeads ==
  {<< >>, <<"X">>, <<"Y">>, <<"Z">>, <<"a", " ", "=", " ">>, <<"g", "(">>,
   <<"SELF", "_", "set", "_", "y", "(", "SELF", "_", "x", ")", ";", " ">>,
   <<"X", "SELF", "_", "x", " ", "+", " ">>}

SelfTails == {<< >>, <<";">>, <<" ", "+", " ", "Y", "SELF", "_", "y">>}

SelfTexts == {h \o u \o t : h \in SelfHeads, u \in SelfUses, t \in SelfTails}

\* expandSelfAccessors comes to a line of the body of a method of the
\* type allTypes[fi]: body[k]
TakeBodyLine ==
  /\ pc = "expandSelfAccessors" /\ Alive
  /\ fi' \in {t \in 1..Len(allTypes) : Len(defn[allTypes[t]].methods) > 0}
  /\ text' \in SelfTexts
  /\ src' = text'
  /\ pc' = "self_accessor_re"
  /\ UNCHANGED <<args, allDefs, defn, knownTypes, knownIds, allTypes, err, written,
                 hashVars, lastIndex, out1, thrown, pp>>

NextSelf ==
  \/ Collect
  \/ BuildTypeMap
  \/ ResolveTypeRefs
  \/ CheckRecursion
  \/ LayoutTypes
  \/ CreateVirtuals
  \/ TakeBodyLine
  \/ ReplaceSelfAccessors
  \/ ReplaceSelfGetters

\* a class with a field named SELF that embeds a Pair
SelfHolder == DefD("class", "K", "", <<PropD("SELF", "", FALSE, "Pair")>>, <<"f">>)

SelfProgram == OneFile(<<Point, Pair, PairBox, Segment, SelfHolder>>)

InitSelf == InitWith(SelfProgram)

SpecSelf == InitSelf /\ [][NextSelf]_vars

\* every SELF of t ends a longer identifier
OnlyLongerNames(t) == \A i \in 1..Len(t) : t[i] = "SELF" => IsWord(At(t, i - 1))

(***************************************************************************)
(* C17: self-accessor expansion rewrites only uses of the identifier SELF  *)
(* itself: a line in which SELF occurs only as the end of a longer         *)
(* identifier (XSELF, YSELF, ZSELF) followed by a field or operation is    *)
(* left exactly as written.                                                *)
(***************************************************************************)
C17_OnlySelfRewritten ==
  (pc = "selfExpanded" /\ OnlyLongerNames(src)) => text = src

(***************************************************************************)
(* Paste-up programs: files of up to three definitions with retained lines *)
(* before, between and after them.  The text lines of the gaps are named   *)
(* by their place, so that their order can be told in the output.          *)
(***************************************************************************)
GapNames == <<"g0", "g1", "g2", "g3">>

\* the retained lines at place p; lines that look like the end of a
\* definition or like a property are retained too where no definition is open
Gap(o, p) ==
  CASE o = 0 -> << >>
    [] o = 1 -> <<TextLine(GapNames[p])>>
    [] o = 2 -> <<Line("blank", "", "", ""), TextLine(GapNames[p])>>
    [] OTHER -> <<Line("end", "", "", ""), TextLine(GapNames[p]),
                  Line("prop", "x", "int32", "")>>

GapOptions == 0..3

Interleave(ds, gs) ==
  Gap(gs[1], 1) \o Flatten([i \in 1..Len(ds) |-> DefLines(ds[i]) \o Gap(gs[i + 1], i + 1)])

PasteS == DefD("struct", "S", "", <<PropD("x", "", FALSE, "int32")>>, <<"get">>)
PasteK == DefD("class", "K", "", <<PropD("x", "", FALSE, "int32")>>, <<"f", "g">>)
PasteD == DefD("class", "D", "K", <<PropD("s", "", FALSE, "S")>>, <<"f">>)

PasteDefs == {<< >>, <<PasteS>>, <<PasteK>>, <<PasteS, PasteK>>, <<PasteK, PasteD, PasteS>>,
              <<PasteS, PasteK, PasteD>>}

PasteupPrograms ==
  {<<File("f1", Interleave(ds, gs))>> :
     ds \in PasteDefs, gs \in [1..4 -> GapOptions]}
  \cup {<<File("f1", Interleave(<<PasteK>>, g1)), File("f2", Interleave(<<PasteS, PasteD>>, g2))>> :
          g1 \in [1..2 -> {0, 1}], g2 \in [1..3 -> {0, 2, 3}]}

InitPasteup == \E fs \in PasteupPrograms : InitWith(fs)
SpecPasteup == InitPasteup /\ [][Next]_vars

(***************************************************************************)
(* The input of a file, read without the collector: a line is retained     *)
(* when no definition is open at it and it does not open one.              *)
(***************************************************************************)
\* for every line "kept", "open" (the opener of a definition) or "in"
RECURSIVE MarkFrom(_, _, _)
MarkFrom(ls, i, inside) ==
  IF i > Len(ls) THEN << >>
  ELSE IF inside THEN <<"in">> \o MarkFrom(ls, i + 1, ls[i].k # "end")
  ELSE IF ls[i].k \in StartKinds THEN <<"open">> \o MarkFrom(ls, i + 1, TRUE)
  ELSE <<"kept">> \o MarkFrom(ls, i + 1, FALSE)

Marks(ls) == MarkFrom(ls, 1, FALSE)

\* the elements of ls at the places of I, in order
RECURSIVE Pick(_, _, _)
Pick(ls, I, i) ==
  IF i > Len(ls) THEN << >>
  ELSE (IF i \in I THEN <<ls[i]>> ELSE << >>) \o Pick(ls, I, i + 1)

KeptPlaces(ls) == {i \in 1..Len(ls) : Marks(ls)[i] = "kept"}
OpenPlaces(ls) == {i \in 1..Len(ls) : Marks(ls)[i] = "open"}

RetainedOf(ls) == Pick(ls, KeptPlaces(ls), 1)

\* the openers of the file, in order, and for each the number of retained
\* lines before it
OpenersOf(ls) == Pick([i \in 1..Len(ls) |-> i], OpenPlaces(ls), 1)
OriginsOf(ls) ==
  [j \in 1..Len(OpenersOf(ls)) |->
     Cardinality({i \in KeptPlaces(ls) : i < OpenersOf(ls)[j]})]
OpenerNames(ls) == [j \in 1..Len(OpenersOf(ls)) |-> ls[OpenersOf(ls)[j]].name]

(***************************************************************************)
(* The output of a file, taken apart: a block runs from its "const" line   *)
(* to its "close" line, followed by the "idToType" line of a class.        *)
(***************************************************************************)
RECURSIVE UnpasteFrom(_, _, _, _)
UnpasteFrom(out, i, inside, u) ==
  IF i > Len(out) THEN u
  ELSE IF inside THEN UnpasteFrom(out, i + 1, out[i].k # "close", u)
  ELSE IF out[i].k = "const"
  THEN UnpasteFrom(out, i + 1, TRUE,
                   [u EXCEPT !.starts = Append(@, Len(u.kept)),
                             !.names = Append(@, out[i].name)])
  ELSE IF out[i].k = "idToType" THEN UnpasteFrom(out, i + 1, FALSE, u)
  ELSE UnpasteFrom(out, i + 1, FALSE, [u EXCEPT !.kept = Append(@, out[i])])

Unpaste(out) == UnpasteFrom(out, 1, FALSE, [kept |-> << >>, starts |-> << >>, names |-> << >>])

\* pasteupTypes has just returned
PastedUp == pc = "expandGlobalAccessorsAndMacros" /\ Alive

(***************************************************************************)
(* C21: in the paste-up output of each file every retained line appears    *)
(* exactly once and in its original order, the blocks of the definitions   *)
(* of the file appear in source order, and the block of a definition d     *)
(* starts just after origin(d) retained lines, origin(d) being the number  *)
(* of retained lines before the opener of d in the input.                  *)
(***************************************************************************)
C21_PasteupInterleaves ==
  PastedUp =>
    \A i \in 1..Len(args) :
      /\ Unpaste(allDefs[i].lines).kept = RetainedOf(args[i].lines)
      /\ Unpaste(allDefs[i].lines).names = OpenerNames(args[i].lines)
      /\ Unpaste(allDefs[i].lines).starts = OriginsOf(args[i].lines)

\* three blocks with retained lines before, between and after them, and
\* two blocks without a retained line between them
C21_Witness ==
  /\ PastedUp
  /\ \E i \in 1..Len(args) :
       /\ Unpaste(allDefs[i].lines).names = <<"K", "D", "S">>
       /\ Unpaste(allDefs[i].lines).starts = <<2, 2, 5>>
       /\ Len(Unpaste(allDefs[i].lines).kept) = 6

(***************************************************************************)
(* The uses of the self accessors in a line, and what they are to become.  *)
(***************************************************************************)
\* SELF_<op>_<field> followed by "(" begins at place i of t
AccessorUse(t, i) ==
  /\ At(t, i) = "SELF" /\ At(t, i + 1) = "_"
  /\ At(t, i + 2) \in SelfOps /\ At(t, i + 3) = "_"
  /\ PropRunEnd(t, i + 4) > i + 4
  /\ At(t, WsRunEnd(t, PropRunEnd(t, i + 4))) = "("

\* the place after the "(" of the use at i
AccessorUseEnd(t, i) == WsRunEnd(t, PropRunEnd(t, i + 4)) + 1

\* T.<op>_<field>(self, with the operator and the field of the use at i; the
\* white space before the "(" is kept
RewrittenUse(T, t, i) ==
  <<T, ".", t[i + 2], "_">> \o SubSeq(t, i + 4, AccessorUseEnd(t, i) - 2)
  \o <<"(", "self", ",", " ">>

\* t from place i with every use rewritten
RECURSIVE AccessorsRewritten(_, _, _)
AccessorsRewritten(T, t, i) ==
  IF i > Len(t) THEN << >>
  ELSE IF AccessorUse(t, i)
  THEN RewrittenUse(T, t, i) \o AccessorsRewritten(T, t, AccessorUseEnd(t, i))
  ELSE <<t[i]>> \o AccessorsRewritten(T, t, i + 1)

\* u is a part of t
Contains(t, u) == \E j \in 0..(Len(t) - Len(u)) : SubSeq(t, j + 1, j + Len(u)) = u

\* the type of the method of the line
SelfType == defn[allTypes[fi]].name

(***************************************************************************)
(* C22: in a method body line of a type T each SELF_<op>_<field> followed  *)
(* by "(", with <op> one of set, add, sub, or, compareExchange,            *)
(* loadWhenEqual, loadWhenNotEqual, expectUpdate, is rewritten to          *)
(* T.<op>_<field>(self, with the operator and field that were matched, and *)
(* the rewritten text is still there after the getter pattern has been     *)
(* applied to the line.                                                    *)
(***************************************************************************)
C22_SelfAccessorsRewrittenOnce ==
  /\ pc = "self_getter_re" => text = AccessorsRewritten(SelfType, src, 1)
  /\ pc = "selfExpanded" =>
       \A i \in 1..Len(src) :
         AccessorUse(src, i) => Contains(text, RewrittenUse(SelfType, src, i))

(***************************************************************************)
(* The class identifiers that layout registers.                            *)
(***************************************************************************)
\* the dotted names of the classes hash to pairwise distinct identifiers
DistinctIds == \A c1 \in Classes : \A c2 \in Classes : c1 # c2 => ~SameHash(c1, c2)

\* knownIds holds the identifier of every class, under its dotted name, and
\* nothing else
EachIdRegistered ==
  /\ DOMAIN knownIds = {computeClassId(DottedName(c)) : c \in Classes}
  /\ \A c \in Classes : knownIds[computeClassId(DottedName(c))] = DottedName(c)

\* every class is declared after its base
BasesFirst == \A c \in Classes : ParentOf(c) # 0 => ParentOf(c) < c

(***************************************************************************)
(* C23: layoutTypes completes without error for every resolved, acyclic    *)
(* set of definitions whose classes have pairwise distinct identifiers, in *)
(* any declaration order, a class declared before its base included, and   *)
(* the identifier of each class is registered once.                        *)
(***************************************************************************)
C23_LayoutInAnyOrder ==
  (Ran("layoutTypes") /\ DistinctIds) => (Passed("layoutTypes") /\ EachIdRegistered)

(***************************************************************************)
(* The bytes that the fields of a type take.                               *)
(***************************************************************************)
\* the entries of the map of T that hold a value: primitives, and pointers
\* to objects and arrays, which are held as int32
LeafKeys(T) == {k \in DOMAIN defn[T].map : defn[T].map[k].expand}

LeafSize(e) == IF e.type.tag = "prim" THEN builtinTypes[e.type.name].size ELSE 4

\* the bytes from offset up to offset + size
LeafBytes(T, k) ==
  defn[T].map[k].offset .. (defn[T].map[k].offset + LeafSize(defn[T].map[k]) - 1)

\* no struct is without a field that holds a value
NoZeroAlign == \A s \in Structs : defn[s].align > 0

FieldsApart(T) ==
  /\ \A k1 \in LeafKeys(T) : \A k2 \in LeafKeys(T) :
       k1 # k2 => LeafBytes(T, k1) \cap LeafBytes(T, k2) = {}
  /\ \A k \in LeafKeys(T) : LeafBytes(T, k) \subseteq 0..(defn[T].size - 1)

(***************************************************************************)
(* C24: for every type T that was laid out, the byte ranges                *)
(* [offset, offset + size) of any two distinct leaf entries of its field   *)
(* map are disjoint and each lies inside [0, size(T)), for primitive,      *)
(* pointer, array and embedded-struct properties, structs without          *)
(* properties and fields inherited from a base included.                   *)
(***************************************************************************)
C24_FieldsDisjointAndInside ==
  Passed("layoutTypes") => \A T \in Types : FieldsApart(T)


(***************************************************************************)
(* The measure of myExec: the characters from re.lastIndex to the end of   *)
(* the text, and the texts that a macro hands to expandMacrosIn.           *)
(***************************************************************************)
\* the words of more than one character that the texts are made of
LongWords ==
  [Point |-> 5, Pair |-> 4, PairBox |-> 7, Segment |-> 7, constructor |-> 11,
   toString |-> 8, set |-> 3, ref |-> 3, get |-> 3, array |-> 5, new |-> 3, var |-> 3,
   undefined |-> 9, mem |-> 3, int8 |-> 4, uint8 |-> 5, int16 |-> 5, uint16 |-> 6,
   int32 |-> 5, uint32 |-> 6, float32 |-> 7, float64 |-> 7, initInstance |-> 12,
   Parlang |-> 7, alloc |-> 5, impl |-> 4, Missing |-> 7, len |-> 3]

TwoDigits == {ToString(n) : n \in 10..99}

\* the length of a token in characters
TokLen(c) ==
  IF c \in DOMAIN LongWords THEN LongWords[c] ELSE IF c \in TwoDigits THEN 2 ELSE 1

\* s.length
RECURSIVE CharLen(_)
CharLen(s) == IF s = << >> THEN 0 ELSE TokLen(Head(s)) + CharLen(Tail(s))

\* loadFromRef comes to expandMacrosIn(endstrip(rhs))
RhsExpanded(h, type, operation) ==
  /\ operation = "set_"
  /\ type.tag # "null"
  /\ \/ type.tag = "prim"
     \/ h[type.idx].kind = "class"
     \/ h[type.idx].hasSetMethod

\* the texts that accMacro hands to expandMacrosIn, in order
accExpanded(h, kt, s, p, m) ==
  LET operation == IF m.g2 = "" THEN "get_" ELSE m.g2 \o "_"
      className == Spelled(m.g1)
      fld       == FieldOf(h[kt[className]].map, m.g3)
      a         == allArgs(s, p + m.len)
      first     == endstrip(Arg(a.pp.as, 0))
  IN IF ~Has(kt, className) THEN << >>
     ELSE IF ~fld.found \/ a.thrown \/ ~AccArity(operation, Len(a.pp.as)) THEN << >>
     ELSE IF expandMacrosInText(h, kt, first).thrown = "" /\ RhsExpanded(h, fld.type, operation)
     THEN <<first, endstrip(Arg(a.pp.as, 1))>>
     ELSE <<first>>

\* the texts that arrMacro hands to expandMacrosIn, in order
arrExpanded(h, kt, s, p, m) ==
  LET type  == findType(kt, Spelled(m.g1))
      field == m.g3 # << >>
      a     == allArgs(s, p + m.len)
      first == endstrip(Arg(a.pp.as, 0))
      secnd == endstrip(Arg(a.pp.as, 1))
      fld   == FieldOf(h[type.idx].map, m.g3)
  IN IF type.tag = "null" \/ a.thrown \/ ~ArrArity(m.g2, Len(a.pp.as)) THEN << >>
     ELSE IF field /\ (type.tag = "prim" \/ h[type.idx].kind = "class") THEN << >>
     ELSE IF expandMacrosInText(h, kt, first).thrown # "" THEN <<first>>
     ELSE IF expandMacrosInText(h, kt, secnd).thrown # "" THEN <<first, secnd>>
     ELSE IF field /\ ~fld.found THEN <<first, secnd>>
     ELSE IF RhsExpanded(h, IF field THEN fld.type ELSE type, m.g2 \o "_")
     THEN <<first, secnd, endstrip(Arg(a.pp.as, 2))>>
     ELSE <<first, secnd>>

\* the texts that newMacro hands to expandMacrosIn
newExpanded(h, kt, s, p, m) ==
  LET a == allArgs(s, p + m.len) IN
  IF m.g2 = "class" \/ a.thrown \/ Len(a.pp.as) # 1 THEN << >>
  ELSE IF findType(kt, Spelled(m.g1)).tag = "null" THEN << >>
  ELSE <<endstrip(Arg(a.pp.as, 0))>>

\* the texts that the macro of re hands to expandMacrosIn for the match m
ExpandedArgs(re, h, kt, t, m) ==
  CASE re = "acc_re" -> accExpanded(h, kt, t, m.p, m)
    [] re = "arr_re" -> arrExpanded(h, kt, t, m.p, m)
    [] re = "new_re" -> newExpanded(h, kt, t, m.p, m)

\* text.length - re.lastIndex
Distance(t, lastIdx) == CharLen(SubstringFrom(t, lastIdx))

MacroRes == {"acc_re", "arr_re", "new_re"}

\* an iteration of myExec whose macro returns: it rewrites or declines
MacroReturns(re) ==
  /\ pc = re /\ pc' = re
  /\ thrown = "" /\ thrown' = ""
  /\ NextMatch(re).found

\* the iteration rewrote the call, or declined it
Rewrote == text' # text
Declined(re) == text' = text /\ lastIndex' = NextMatch(re).p + NextMatch(re).len

DistanceDecreases(re) ==
  MacroReturns(re) =>
    /\ Rewrote \/ Declined(re)
    /\ lastIndex' > 0 /\ lastIndex' <= Len(text')
    /\ Distance(text', lastIndex') < Distance(text, lastIndex)

ArgumentsShorter(re) ==
  (pc = re /\ thrown = "" /\ NextMatch(re).found) =>
    LET xs == ExpandedArgs(re, defn, knownTypes, text, NextMatch(re)) IN
    \A i \in 1..Len(xs) : CharLen(xs[i]) < CharLen(text)

\* C25: in myExec the distance from the scan position to the end of the
\* text strictly decreases on every iteration, on a rewrite and on a
\* decline, and every recursive expansion is applied to an argument
\* strictly shorter than the text being expanded
C25_MyExecMeasure ==
  [][\A re \in MacroRes : DistanceDecreases(re) /\ ArgumentsShorter(re)]_vars

\* the call has the arguments that its operation takes
HasItsArguments(re) ==
  LET m == NextMatch(re) IN
  re = "acc_re" => (m.g2 = "ref" => Len(CallArgs(m).pp.as) >= 1)

\* C25 for the calls that have their arguments
C25_MeasureWithArguments ==
  [][\A re \in MacroRes :
       /\ DistanceDecreases(re)
       /\ HasItsArguments(re) => ArgumentsShorter(re)]_vars

\* the distance alone, whatever the arguments
C25_DistanceDecreases == [][\A re \in MacroRes : DistanceDecreases(re)]_vars

\* a rewrite and a decline have both happened
C25_Rewritten == pc \in MacroRes /\ thrown = "" /\ text # src /\ lastIndex > 0
C25_DeclinedCall == pc \in MacroRes /\ thrown = "" /\ text = src /\ lastIndex > 0

(***************************************************************************)
(* createVirtuals on the hierarchies that layoutTypes has laid out.        *)
(***************************************************************************)
\* no element of the sequence occurs twice
Once(xs) == \A i \in 1..Len(xs) : \A j \in 1..Len(xs) : i # j => xs[i] # xs[j]

\* the names that the VirtualMethodNameIterator of c yields
YieldedNames(c) ==
  LET ns == VirtualMethodNames(defn, c, 0, FALSE, {}) IN [i \in 1..Len(ns) |-> ns[i].name]

\* each name is yielded once, and the names are those visible in c
NamesYieldedOnce(c) ==
  /\ Once(YieldedNames(c))
  /\ {YieldedNames(c)[i] : i \in 1..Len(YieldedNames(c))} = {m \in VirtualNames : Visible(c, m)}

\* the InclusiveSubclassIterator of c yields c and its transitive
\* subclasses, each once
SubclassesVisitedOnce(c) ==
  LET subs == InclusiveSubclasses(defn, c) IN
  /\ Once(subs)
  /\ {subs[i] : i \in 1..Len(subs)} = SubclassesOf(c)

\* findMethodImplFor(s, c.baseTypeRef, m) returns the nearest implementation
\* from s up to c, or null at the base of c when there is none
ImplOrStop(c, s, m) ==
  LET r == findMethodImplFor(defn, s, defn[c].baseTypeRef.idx, m)
      n == NearestIn(Chain(s), m)
  IN /\ ~r.thrown
     /\ IF n \in UpTo(s, c) THEN r.impl = Impl(defn[n].name, m)
        ELSE r.impl = NoImpl /\ ParentOf(c) # 0 /\ n \in UpTo(ParentOf(c), n)

\* the class ids under the implementations of one entry of a vtable
CaseIds(e) ==
  UNION {{<<k, j>> : j \in 1..Len(e.reverseCases[k].ids)} : k \in 1..Len(e.reverseCases)}

\* each class id of the subclasses of c is under at most one implementation
\* of the entry, once
OneImplPerId(c, e) ==
  \A s \in SubclassesOf(c) :
    Cardinality({kj \in CaseIds(e) :
                   e.reverseCases[kj[1]].ids[kj[2]] = defn[s].classId}) <= 1

MethodKinds == {"method", "special"}

\* the place of the line that closes the definition opened at o, or the
\* place after the last line
ClosingOf(ls, o) == Least({j \in (o + 1)..Len(ls) : ls[j].k = "end"} \cup {Len(ls) + 1})

\* the method and accessor openers of the definition, in order
MethodOpeners(ls, o) ==
  Pick([i \in 1..Len(ls) |-> i],
       {j \in (o + 1)..(ClosingOf(ls, o) - 1) : ls[j].k \in MethodKinds}, 1)

\* the place where the method opened at j ends: the next opener or the
\* closing line
MethodEnd(ls, o, j) ==
  Least({i \in (j + 1)..Len(ls) : ls[i].k \in MethodKinds} \cup {ClosingOf(ls, o)})

\* the rest of the opener, then every line up to the end of the method
WholeBody(ls, o, j) == <<TextLine(ls[j].arg)>> \o SubSeq(ls, j + 1, MethodEnd(ls, o, j) - 1)

\* the lines of the method that match neither prop_re nor aprop_re
PropKinds == {"prop", "aprop"}
BodyWithoutProps(ls, o, j) ==
  <<TextLine(ls[j].arg)>>
  \o Pick(ls, {i \in (j + 1)..(MethodEnd(ls, o, j) - 1) : ls[i].k \notin PropKinds}, 1)

\* the methods of d are the openers of its definition, once each and in order
MethodsInOrder(d, ls) ==
  LET mo == MethodOpeners(ls, d.line) IN
  /\ Len(d.methods) = Len(mo)
  /\ \A k \in 1..Len(mo) :
       /\ d.methods[k].name = (IF ls[mo[k]].k = "method" THEN ls[mo[k]].name ELSE "")
       /\ d.methods[k].kind = (IF ls[mo[k]].k = "method" THEN "Virtual"
                               ELSE SpecialKind(ls[mo[k]].qual))

\* no property of d comes from a line after an opener of a method
NoPropertyAfterOpener(d, ls) ==
  LET mo == MethodOpeners(ls, d.line) IN
  \A i \in 1..Len(d.props) : mo # << >> => d.props[i].line < mo[1]

\* the one file has been collected, and expandSelfAccessors has not yet
\* rewritten the bodies
Collected == Passed("collect") /\ ~Passed("createVirtuals") /\ Len(args) = 1

\* C27: inside a definition, once a method or accessor opener has been
\* seen, every later line up to the closing line that is not itself an
\* opener is appended verbatim and in order to the body of the most
\* recently opened method, and no such line is recorded as a property of
\* the type; each opened method is recorded exactly once, in source order
C27_BodyLinesGoToMethod ==
  Collected =>
    \A t \in Types :
      LET mo == MethodOpeners(args[1].lines, defn[t].line) IN
      /\ MethodsInOrder(defn[t], args[1].lines)
      /\ \A k \in 1..Len(mo) : k <= Len(defn[t].methods) =>
           defn[t].methods[k].body = WholeBody(args[1].lines, defn[t].line, mo[k])
      /\ NoPropertyAfterOpener(defn[t], args[1].lines)

\* C27 with the lines that match prop_re or aprop_re set apart: the other
\* lines go to the body, and the methods are recorded once, in order
C27_OtherLinesGoToMethod ==
  Collected =>
    \A t \in Types :
      LET mo == MethodOpeners(args[1].lines, defn[t].line) IN
      /\ MethodsInOrder(defn[t], args[1].lines)
      /\ \A k \in 1..Len(mo) :
           defn[t].methods[k].body = BodyWithoutProps(args[1].lines, defn[t].line, mo[k])

\* a method with a line appended to its body has been collected
C27_BodyCollected ==
  /\ Collected
  /\ \E t \in Types : \E k \in 1..Len(defn[t].methods) : Len(defn[t].methods[k].body) > 1

\* a line after a method opener has been recorded as a property
C27_PropertyFromBody ==
  /\ Collected
  /\ \E t \in Types : ~NoPropertyAfterOpener(defn[t], args[1].lines)

====
